---- MODULE Spec2Model ----
(***************************************************************************)
(* Mining planner of azalea's pathfinder: MiningProcess                    *)
(* (mining_process.rs), the goals it builds (mining_goals.rs) and the      *)
(* parts of MiningCache (mining.rs) and WorldScanner (world_scanner.rs)    *)
(* that its handlers write.                                                *)
(*                                                                         *)
(* Time: Instant and Duration are counted in units of 1/UnitsPerSec        *)
(* second.  A handler reads Instant::now() once: the clock moves only      *)
(* between handlers (advance_time).                                        *)
(* f32 distances that the code compares are kept in half blocks (3.0 is 6, *)
(* 4.5 is 9), so that sqrt(d2) <= r is 4 * d2 <= r2 * r2 on integers.      *)
(* Option<T>: None is <<>>, Some(x) is <<x>>.                              *)
(***************************************************************************)
EXTENDS Integers, Sequences, FiniteSets, TLC

\* ------------------------------------------------------------------ bounds
MaxTime == 3
MaxDur == 2
MaxInv == 1
UnitsPerSec == 2
MaxIntervalSecs == 1
MaxLocations == 4
MaxCalls == 2
MaxStripDim == 3
MaxChunkRadius == 2
MaxResults == 2
MaxCostCalls == 3
MaxFall == 4
FloatScale == 10000
MaxPath == 3
MaxColumn == 4
MaxCacheCalls == 4

\* ------------------------------------------------------- program constants
DefaultMaxMiningDistance == 256
DefaultScanIntervalSeconds == 10
DefaultVeinMaxDistance2 == 6
VeinConnectionDistance2 == 6
OreVeinGoalDistance2 == 6
OreVeinMaxReach2 == 9
MinVeinSize == 2
MaxGoalLocations == 20
I32Max == 2147483647
MiningReachSquared == 20
StandardReach2 == 9
StripMineEntrySquared == 2
ChunkWidth == 16
SectionBlocks == 4096
MinSectionY == -4
MaxSectionY == 19
BLOCK_BREAK_ADDITIONAL_PENALTY == 2

None == <<>>
Some(x) == <<x>>
IsSome(o) == o # <<>>
Unwrap(o) == o[1]

\* ----------------------------------------------------------------- domains
\* Positions and block states the host may present to the process.
ProcPositions == { <<10, 64, 10>> }
PlayerPositions == { <<0, 64, 0>> }
OreStates == { "DiamondOre", "DeepslateDiamondOre" }
WorldStates == { "Stone", "DiamondOre" }
Worlds == [ProcPositions -> WorldStates]
IntervalSecs == 0..MaxIntervalSecs
VeinDistances2 == { 6, 8 }
\* Positions the goal builder is applied to: a chain of three at distance 3,
\* a pair, and a gap of 4 between them.
GoalPositions == { <<-3, 0, 0>>, <<0, 0, 0>>, <<3, 0, 0>>, <<7, 0, 0>>, <<7, 2, 2>> }
GoalPlayers == { <<0, 0, 0>>, <<8, 0, 0>> }

VARIABLES
    \* MiningProcess (mining_process.rs:16-38)
    target_blocks, desired_quantity, current_known_locations,
    blacklisted_positions, current_goal, mining_sequence,
    last_scan_time, scan_interval, max_mining_distance, prefer_y_levels,
    \* MiningCache.avoid_blocks, WorldScanner.ore_cache
    avoid_blocks, ore_cache,
    \* MiningCache (mining.rs:13-26)
    block_state_id_costs, preferred_tools, inventory_menu,
    \* the MiningConfig handed to MiningProcess::new
    config,
    \* Instant::now()
    now,
    \* the last call made on the process: its name, arguments, return value
    ret,
    \* history: the deadline given by each blacklist_position call, and the
    \* time of the last scan since the process was created or restarted
    blacklist_log, scan_log,
    \* history: the last of new, start_mining and stop that was called
    last_control,
    \* inputs and result of the goal builder under GoalSpec
    g_locations, g_player, g_order, g_called, g_veins, g_goal,
    \* a method applied to drawn arguments (name and arguments), and the
    \* values its successive calls returned
    fn_call, fn_rets

procvars == << target_blocks, desired_quantity, current_known_locations,
               blacklisted_positions, current_goal, mining_sequence,
               last_scan_time, scan_interval, max_mining_distance, prefer_y_levels,
               avoid_blocks, ore_cache, config, now, ret,
               blacklist_log, scan_log, last_control >>
goalvars == << g_locations, g_player, g_order, g_called, g_veins, g_goal >>
fnvars == << fn_call, fn_rets >>
cachevars == << block_state_id_costs, preferred_tools, inventory_menu >>
vars == << procvars, goalvars, fnvars, cachevars >>

\* ------------------------------------------------------------------- maps
EmptyMap == [k \in {} |-> 0]
MapInsert(m, k, v) == [q \in DOMAIN m \cup {k} |-> IF q = k THEN v ELSE m[q]]
MapRetain(m, keys) == [k \in keys |-> m[k]]

\* ------------------------------------------------------------ return values
NoGoal == [kind |-> "None"]
NoResult == [tag |-> "None", n |-> 0, goal |-> NoGoal]
GoalUpdated(goal) == [tag |-> "GoalUpdated", n |-> 0, goal |-> goal]
NoTargetsFound == [tag |-> "NoTargetsFound", n |-> 0, goal |-> NoGoal]
QuantityReached(n) == [tag |-> "QuantityReached", n |-> n, goal |-> NoGoal]
\* of the arguments, those that the return value may depend on
NoArgs == [player_pos |-> <<0, 0, 0>>, world |-> [p \in {} |-> "Stone"], inventory |-> 0]
Call(op, result, scanned, args) ==
    [op |-> op, result |-> result, scanned |-> scanned, args |-> args]

\* ------------------------------------------------------------ arithmetic
\* i32 division truncates toward zero
TruncDiv(a, b) == IF a >= 0 THEN a \div b ELSE -((-a) \div b)
Range(s) == { s[i] : i \in 1..Len(s) }
RECURSIVE SetSum(_, _)
SetSum(S, k) == IF S = {} THEN 0 ELSE LET e == CHOOSE e \in S : TRUE IN e[k] + SetSum(S \ {e}, k)
RECURSIVE SeqSum(_, _)
SeqSum(s, k) == IF s = <<>> THEN 0 ELSE Head(s)[k] + SeqSum(Tail(s), k)
Take(s, n) == SubSeq(s, 1, IF Len(s) < n THEN Len(s) ELSE n)
\* the iteration orders a HashSet holding S may have
Orders(S) == { o \in [1..Cardinality(S) -> S] : \A i, j \in 1..Cardinality(S) : i # j => o[i] # o[j] }
FirstIn(order, S) == order[CHOOSE i \in 1..Len(order) : order[i] \in S /\ \A j \in 1..(i - 1) : order[j] \notin S]

\* BlockPos::distance_squared_to (azalea-core)
distance_squared_to(a, b) ==
    (a[1] - b[1]) * (a[1] - b[1]) + (a[2] - b[2]) * (a[2] - b[2]) + (a[3] - b[3]) * (a[3] - b[3])

\* ((dx^2 + dy^2 + dz^2) as f32).sqrt() <= r, r given in half blocks
within_distance(a, b, r2) == 4 * distance_squared_to(a, b) <= r2 * r2

\* Vec::sort_by_key (stable) on the squared distance to the player
RECURSIVE insert_sorted(_, _, _)
insert_sorted(sorted, pos, player_pos) ==
    IF sorted = <<>> THEN << pos >>
    ELSE IF distance_squared_to(Head(sorted), player_pos) <= distance_squared_to(pos, player_pos)
         THEN << Head(sorted) >> \o insert_sorted(Tail(sorted), pos, player_pos)
         ELSE << pos >> \o sorted
RECURSIVE sort_by_distance(_, _)
sort_by_distance(locations, player_pos) ==
    IF locations = <<>> THEN <<>>
    ELSE insert_sorted(sort_by_distance(SubSeq(locations, 1, Len(locations) - 1), player_pos),
                       locations[Len(locations)], player_pos)

\* ----------------------------------------------------------- mining goals
SingleBlock(target, prefer_y_level) ==
    [kind |-> "SingleBlock", target |-> target, prefer_y_level |-> prefer_y_level]
MultipleBlocks(targets, allow_internal_mining) ==
    [kind |-> "MultipleBlocks", targets |-> targets, allow_internal_mining |-> allow_internal_mining]
OreVein(blocks, center, max_reach2) ==
    [kind |-> "OreVein", blocks |-> blocks, center |-> center, max_reach2 |-> max_reach2]
PriorizedMiningGoal(goals) == [kind |-> "PriorizedMiningGoal", goals |-> goals]
\* an f32 quotient, kept exact as numerator and denominator
Ratio(num, den) == [num |-> num, den |-> den]

\* MiningGoal::for_ore_vein: flood fill from initial_ore over all_ores
RECURSIVE ore_vein_fill(_, _, _, _, _)
ore_vein_fill(all_ores, max_vein_distance2, to_check, checked, vein_blocks) ==
    IF to_check = <<>> THEN vein_blocks
    ELSE LET current == to_check[Len(to_check)]
             rest == SubSeq(to_check, 1, Len(to_check) - 1)
         IN IF current \in checked
            THEN ore_vein_fill(all_ores, max_vein_distance2, rest, checked, vein_blocks)
            ELSE LET checked1 == checked \cup {current}
                     near(o) == o \notin checked1 /\ within_distance(current, o, max_vein_distance2)
                 IN ore_vein_fill(all_ores, max_vein_distance2, rest \o SelectSeq(all_ores, near),
                                  checked1, vein_blocks \cup {current})

for_ore_vein(initial_ore, all_ores, max_vein_distance2) ==
    LET vein_blocks == ore_vein_fill(all_ores, max_vein_distance2, << initial_ore >>, {}, {})
        count == Cardinality(vein_blocks)
        center == IF vein_blocks = {} THEN initial_ore
                  ELSE << TruncDiv(SetSum(vein_blocks, 1), count),
                          TruncDiv(SetSum(vein_blocks, 2), count),
                          TruncDiv(SetSum(vein_blocks, 3), count) >>
    IN OreVein(vein_blocks, center, OreVeinMaxReach2)

for_scattered_blocks(blocks, allow_internal) == MultipleBlocks(blocks, allow_internal)

\* ------------------------------------------------ MiningProcess: the veins
\* the inner for loop of detect_ore_veins: queue every unprocessed position
\* near current, in the order of the slice
RECURSIVE add_nearby(_, _, _, _, _)
add_nearby(positions, i, current, to_process, unprocessed) ==
    IF i > Len(positions) THEN [to_process |-> to_process, unprocessed |-> unprocessed]
    ELSE IF positions[i] \in unprocessed
            /\ within_distance(current, positions[i], VeinConnectionDistance2)
         THEN add_nearby(positions, i + 1, current, Append(to_process, positions[i]),
                         unprocessed \ {positions[i]})
         ELSE add_nearby(positions, i + 1, current, to_process, unprocessed)

\* the flood fill of one vein (the inner while loop)
RECURSIVE flood_fill(_, _, _, _)
flood_fill(positions, to_process, unprocessed, current_vein) ==
    IF to_process = <<>> THEN [vein |-> current_vein, unprocessed |-> unprocessed]
    ELSE LET current == Head(to_process)
             step == add_nearby(positions, 1, current, Tail(to_process), unprocessed)
         IN flood_fill(positions, step.to_process, step.unprocessed, Append(current_vein, current))

\* the outer while loop; order is the iteration order of the HashSet
RECURSIVE collect_veins(_, _, _, _)
collect_veins(positions, order, unprocessed, veins) ==
    IF unprocessed = {} THEN veins
    ELSE LET start_pos == FirstIn(order, unprocessed)
             fill == flood_fill(positions, << start_pos >>, unprocessed \ {start_pos}, <<>>)
         IN collect_veins(positions, order, fill.unprocessed,
                          IF Len(fill.vein) >= MinVeinSize THEN Append(veins, fill.vein) ELSE veins)

detect_ore_veins(positions, order) == collect_veins(positions, order, Range(positions), <<>>)

calculate_vein_center(vein) ==
    IF vein = <<>> THEN <<0, 0, 0>>
    ELSE << TruncDiv(SeqSum(vein, 1), Len(vein)),
            TruncDiv(SeqSum(vein, 2), Len(vein)),
            TruncDiv(SeqSum(vein, 3), Len(vein)) >>

\* the goal and priority pushed for one vein (the body of the for loop)
vein_goal(vein, player_pos) ==
    LET vein_center == calculate_vein_center(vein)
        distance_to_player == distance_squared_to(vein_center, player_pos)
        vein_size == Len(vein)
        priority == Ratio(vein_size, distance_to_player + 1)
    IN << for_ore_vein(vein[1], vein, OreVeinGoalDistance2), priority >>

update_mining_goal_unguarded(known_locations, player_pos, order, prefer_y) ==
    Some(for_scattered_blocks(Take(sort_by_distance(known_locations, player_pos), MaxGoalLocations), FALSE))

update_mining_goal(known_locations, player_pos, order, prefer_y) ==
    IF known_locations = <<>> THEN None
    ELSE LET target_locations == Take(sort_by_distance(known_locations, player_pos), MaxGoalLocations)
             veins == IF Len(target_locations) > 1 THEN detect_ore_veins(target_locations, order) ELSE <<>>
         IN IF veins # <<>>
            THEN Some(PriorizedMiningGoal([i \in 1..Len(veins) |-> vein_goal(veins[i], player_pos)]))
            ELSE IF Len(target_locations) = 1
                 THEN Some(SingleBlock(target_locations[1],
                                       IF IsSome(prefer_y) THEN Some(Unwrap(prefer_y)[2]) ELSE None))
                 ELSE Some(for_scattered_blocks(target_locations, FALSE))

\* ------------------------------------------- MiningCache and WorldScanner
\* Duration::as_secs and Duration::from_secs, in clock units
as_secs(duration) == duration \div UnitsPerSec
from_secs(secs) == secs * UnitsPerSec

mark_block_inaccessible(avoid, pos, duration_seconds, t) ==
    MapInsert(avoid, pos, t + from_secs(duration_seconds))

should_avoid_block(avoid, pos, t) == pos \in DOMAIN avoid /\ t < avoid[pos]

cleanup_avoid_list(avoid, t) == MapRetain(avoid, { pos \in DOMAIN avoid : t < avoid[pos] })

ChunkOf(pos) == << pos[1] \div 16, pos[3] \div 16 >>

cache_ore_locations(cache, block_state, locations, t) ==
    MapInsert(cache, block_state,
              [i \in 1..Len(locations) |->
                  [pos |-> locations[i], chunk_pos |-> ChunkOf(locations[i]),
                   last_seen |-> t, is_accessible |-> None]])

\* ------------------------------------------------ MiningProcess: helpers
is_blacklisted(blacklist, pos, t) == pos \in DOMAIN blacklist /\ t < blacklist[pos]

cleanup_blacklist(blacklist, t) == MapRetain(blacklist, { pos \in DOMAIN blacklist : t < blacklist[pos] })

should_rescan_strict(last_scan, interval, t) ==
    IF IsSome(last_scan) THEN t - Unwrap(last_scan) > interval ELSE TRUE

should_rescan(last_scan, interval, t) ==
    IF IsSome(last_scan) THEN t - Unwrap(last_scan) >= interval ELSE TRUE

\* placeholder in the source: the inventory is not read
count_target_items(inventory) == 0

RECURSIVE SeqOfSet(_)
SeqOfSet(S) == IF S = {} THEN <<>> ELSE LET e == CHOOSE e \in S : TRUE IN << e >> \o SeqOfSet(S \ {e})

simulate_block_scan_finds(player_pos, world) ==
    SeqOfSet({ pos \in DOMAIN world : world[pos] \in target_blocks })

\* placeholder in the source: the world is not read
simulate_block_scan(player_pos, world) == <<>>

is_active == target_blocks # {}

\* scan_for_targets up to the cache write: the scan result without the
\* blacklisted positions
scan_for_targets(player_pos, world, blacklist, t) ==
    SelectSeq(simulate_block_scan(player_pos, world), LAMBDA pos : ~is_blacklisted(blacklist, pos, t))

\* target_blocks.set.iter().next()
FirstBlocks(blocks) == IF blocks = {} THEN { None } ELSE { Some(b) : b \in blocks }

UpdateArgs(player_pos, world, inventory) ==
    [NoArgs EXCEPT !.player_pos = player_pos, !.world = world, !.inventory = inventory]

\* --------------------------------------------------------------- handlers
start_mining(blocks, quantity) ==
    /\ target_blocks' = blocks
    /\ desired_quantity' = quantity
    /\ current_known_locations' = <<>>
    /\ blacklisted_positions' = EmptyMap
    /\ last_scan_time' = None
    /\ scan_log' = None
    /\ last_control' = "start_mining"
    /\ ret' = Call("start_mining", NoResult, FALSE, NoArgs)
    /\ UNCHANGED << current_goal, mining_sequence, scan_interval, max_mining_distance,
                    prefer_y_levels, avoid_blocks, ore_cache, config, now, blacklist_log >>

update(player_pos, world, inventory) ==
    LET current_count == count_target_items(inventory)
        args == UpdateArgs(player_pos, world, inventory)
    IN IF IsSome(desired_quantity) /\ current_count >= Unwrap(desired_quantity)
       THEN /\ ret' = Call("update", QuantityReached(current_count), FALSE, args)
            /\ UNCHANGED << target_blocks, desired_quantity, current_known_locations,
                            blacklisted_positions, current_goal, mining_sequence,
                            last_scan_time, scan_interval, max_mining_distance,
                            prefer_y_levels, avoid_blocks, ore_cache, config, now,
                            blacklist_log, scan_log, last_control >>
       ELSE LET blacklist == cleanup_blacklist(blacklisted_positions, now)
                rescan == should_rescan(last_scan_time, scan_interval, now)
                known == IF rescan THEN scan_for_targets(player_pos, world, blacklist, now)
                         ELSE current_known_locations
            IN \E first_block \in FirstBlocks(target_blocks), order \in Orders(Range(known)) :
                  LET goal == update_mining_goal(known, player_pos, order, prefer_y_levels) IN
                  /\ blacklisted_positions' = blacklist
                  /\ avoid_blocks' = cleanup_avoid_list(avoid_blocks, now)
                  /\ current_known_locations' = known
                  /\ ore_cache' = IF rescan /\ IsSome(first_block)
                                  THEN cache_ore_locations(ore_cache, Unwrap(first_block), known, now)
                                  ELSE ore_cache
                  /\ last_scan_time' = IF rescan THEN Some(now) ELSE last_scan_time
                  /\ scan_log' = IF rescan THEN Some(now) ELSE scan_log
                  /\ ret' = Call("update",
                                 IF IsSome(goal) THEN GoalUpdated(Unwrap(goal)) ELSE NoTargetsFound,
                                 rescan, args)
                  /\ UNCHANGED << target_blocks, desired_quantity, current_goal, mining_sequence,
                                  scan_interval, max_mining_distance, prefer_y_levels, config,
                                  now, blacklist_log, last_control >>

blacklist_position(pos, duration) ==
    /\ blacklisted_positions' = MapInsert(blacklisted_positions, pos, now + duration)
    /\ avoid_blocks' = mark_block_inaccessible(avoid_blocks, pos, as_secs(duration), now)
    /\ blacklist_log' = MapInsert(blacklist_log, pos, now + duration)
    /\ ret' = Call("blacklist_position", NoResult, FALSE, NoArgs)
    /\ UNCHANGED << target_blocks, desired_quantity, current_known_locations, current_goal,
                    mining_sequence, last_scan_time, scan_interval, max_mining_distance,
                    prefer_y_levels, ore_cache, config, now, scan_log, last_control >>

stop_keeps_targets ==
    /\ desired_quantity' = None
    /\ current_known_locations' = <<>>
    /\ current_goal' = None
    /\ mining_sequence' = None
    /\ last_control' = "stop"
    /\ ret' = Call("stop", NoResult, FALSE, NoArgs)
    /\ UNCHANGED << target_blocks, blacklisted_positions, last_scan_time, scan_interval,
                    max_mining_distance, prefer_y_levels, avoid_blocks, ore_cache, config, now,
                    blacklist_log, scan_log >>

stop ==
    /\ target_blocks' = {}
    /\ desired_quantity' = None
    /\ current_known_locations' = <<>>
    /\ current_goal' = None
    /\ mining_sequence' = None
    /\ last_control' = "stop"
    /\ ret' = Call("stop", NoResult, FALSE, NoArgs)
    /\ UNCHANGED << blacklisted_positions, last_scan_time, scan_interval, max_mining_distance,
                    prefer_y_levels, avoid_blocks, ore_cache, config, now, blacklist_log,
                    scan_log >>

\* the host's clock moves between two calls
advance_time ==
    /\ now < MaxTime
    /\ now' = now + 1
    /\ UNCHANGED << target_blocks, desired_quantity, current_known_locations,
                    blacklisted_positions, current_goal, mining_sequence, last_scan_time,
                    scan_interval, max_mining_distance, prefer_y_levels, avoid_blocks,
                    ore_cache, config, ret, blacklist_log, scan_log, last_control >>

\* ------------------------------------------------------------ construction
DefaultConfig ==
    [max_mining_distance |-> DefaultMaxMiningDistance,
     scan_interval_seconds |-> DefaultScanIntervalSeconds,
     prefer_y_levels |-> None,
     vein_detection_enabled |-> TRUE,
     vein_max_distance2 |-> DefaultVeinMaxDistance2]

\* no method is being applied to drawn arguments
NoCall == [op |-> "none"]
FnIdle == fn_call = NoCall /\ fn_rets = <<>>

\* MiningCache::new(inventory_menu): the cost caches start empty
MiningCache_new(menu) ==
    /\ block_state_id_costs = EmptyMap
    /\ preferred_tools = EmptyMap
    /\ inventory_menu = menu

\* MiningProcess::new(cfg, None)
new(cfg) ==
    /\ config = cfg
    /\ target_blocks = {}
    /\ desired_quantity = None
    /\ current_known_locations = <<>>
    /\ blacklisted_positions = EmptyMap
    /\ avoid_blocks = EmptyMap
    /\ ore_cache = EmptyMap
    /\ current_goal = None
    /\ mining_sequence = None
    /\ last_scan_time = None
    /\ scan_interval = from_secs(cfg.scan_interval_seconds)
    /\ max_mining_distance = cfg.max_mining_distance
    /\ prefer_y_levels = cfg.prefer_y_levels
    /\ now = 0
    /\ ret = Call("new", NoResult, FALSE, NoArgs)
    /\ blacklist_log = EmptyMap
    /\ scan_log = None
    /\ last_control = "new"

Quantities == { None } \cup { Some(q) : q \in 0..MaxInv }

Init ==
    /\ \E secs \in IntervalSecs : new([DefaultConfig EXCEPT !.scan_interval_seconds = secs])
    /\ MiningCache_new(None)
    /\ g_locations = <<>>
    /\ g_player = <<0, 0, 0>>
    /\ g_order = <<>>
    /\ g_called = {}
    /\ g_veins = <<>>
    /\ g_goal = None
    /\ FnIdle

Next ==
    \/ \E blocks \in SUBSET OreStates, quantity \in Quantities :
          start_mining(blocks, quantity) /\ UNCHANGED << goalvars, fnvars, cachevars >>
    \/ \E player_pos \in PlayerPositions, world \in Worlds, inventory \in 0..MaxInv :
          update(player_pos, world, inventory) /\ UNCHANGED << goalvars, fnvars, cachevars >>
    \/ \E pos \in ProcPositions, duration \in 0..MaxDur :
          blacklist_position(pos, duration) /\ UNCHANGED << goalvars, fnvars, cachevars >>
    \/ stop /\ UNCHANGED << goalvars, fnvars, cachevars >>
    \/ advance_time /\ UNCHANGED << goalvars, fnvars, cachevars >>

Spec == Init /\ [][Next]_vars

\* ------------------------------------- the goal builder on drawn inputs
\* Vec<BlockPos> without repetition, of at most MaxLocations positions
LocationLists ==
    UNION { { l \in [1..n -> GoalPositions] : \A i, j \in 1..n : i # j => l[i] # l[j] } :
            n \in 0..(IF MaxLocations < Cardinality(GoalPositions) THEN MaxLocations
                      ELSE Cardinality(GoalPositions)) }

\* the slice update_mining_goal hands to detect_ore_veins
target_locations(known_locations, player_pos) ==
    Take(sort_by_distance(known_locations, player_pos), MaxGoalLocations)

GoalInit ==
    /\ \E vd \in VeinDistances2 : new([DefaultConfig EXCEPT !.vein_max_distance2 = vd])
    /\ MiningCache_new(None)
    /\ g_locations \in LocationLists
    /\ g_player \in GoalPlayers
    /\ g_order \in Orders(Range(g_locations))
    /\ g_called = {}
    /\ g_veins = <<>>
    /\ g_goal = None
    /\ FnIdle

call_detect_ore_veins ==
    /\ "detect_ore_veins" \notin g_called
    /\ g_veins' = detect_ore_veins(target_locations(g_locations, g_player), g_order)
    /\ g_called' = g_called \cup { "detect_ore_veins" }
    /\ UNCHANGED << procvars, fnvars, cachevars, g_locations, g_player, g_order, g_goal >>

call_update_mining_goal ==
    /\ "update_mining_goal" \notin g_called
    /\ g_goal' = update_mining_goal(g_locations, g_player, g_order, prefer_y_levels)
    /\ g_called' = g_called \cup { "update_mining_goal" }
    /\ UNCHANGED << procvars, fnvars, cachevars, g_locations, g_player, g_order, g_veins >>

GoalNext == call_detect_ore_veins \/ call_update_mining_goal

GoalSpec == GoalInit /\ [][GoalNext]_vars

\* ------------------------------------------------------- i32 arithmetic
\* An i32 is kept as its value; sums and products are formed byte by byte so
\* that the wrapped result of a release build is exact.  An i32 expression
\* carries its wrapped value v and whether an operation overflowed (o): a
\* build with overflow checks panics there, one without them goes on with v.
I32Min == -I32Max - 1
Abs(i) == IF i < 0 THEN -i ELSE i
\* the four bytes of the two's complement of a, lowest first
ToBytes(a) == [i \in 0..3 |-> (a \div (256 ^ i)) % 256]
FromBytes(b) ==
    (IF b[3] >= 128 THEN b[3] - 256 ELSE b[3]) * 16777216 + b[2] * 65536 + b[1] * 256 + b[0]
wrapping_add(a, b) ==
    LET A == ToBytes(a)
        B == ToBytes(b)
        s0 == A[0] + B[0]
        s1 == A[1] + B[1] + (s0 \div 256)
        s2 == A[2] + B[2] + (s1 \div 256)
        s3 == A[3] + B[3] + (s2 \div 256)
    IN FromBytes([i \in 0..3 |-> CASE i = 0 -> s0 % 256 [] i = 1 -> s1 % 256
                                   [] i = 2 -> s2 % 256 [] OTHER -> s3 % 256])
wrapping_neg(a) == IF a = I32Min THEN I32Min ELSE -a
wrapping_sub(a, b) ==
    IF b = I32Min THEN wrapping_add(wrapping_add(a, I32Max), 1) ELSE wrapping_add(a, -b)
wrapping_mul(a, b) ==
    LET A == ToBytes(a)
        B == ToBytes(b)
        c0 == A[0] * B[0]
        c1 == A[0] * B[1] + A[1] * B[0] + (c0 \div 256)
        c2 == A[0] * B[2] + A[1] * B[1] + A[2] * B[0] + (c1 \div 256)
        c3 == A[0] * B[3] + A[1] * B[2] + A[2] * B[1] + A[3] * B[0] + (c2 \div 256)
    IN FromBytes([i \in 0..3 |-> CASE i = 0 -> c0 % 256 [] i = 1 -> c1 % 256
                                   [] i = 2 -> c2 % 256 [] OTHER -> c3 % 256])
add_overflows(a, b) == (b > 0 /\ a > I32Max - b) \/ (b < 0 /\ a < I32Min - b)
sub_overflows(a, b) == (b < 0 /\ a > I32Max + b) \/ (b > 0 /\ a < I32Min + b)
\* floor(2^31 / q) for q >= 2
Pow31Div(q) == (I32Max \div q) + (IF I32Max % q = q - 1 THEN 1 ELSE 0)
mul_overflows(a, b) ==
    CASE a = 0 \/ b = 0 -> FALSE
      [] a = 1 \/ b = 1 -> FALSE
      [] a = I32Min \/ b = I32Min -> TRUE
      [] (a > 0) = (b > 0) -> Abs(a) > I32Max \div Abs(b)
      [] OTHER -> Abs(a) > Pow31Div(Abs(b))
I32(v) == [v |-> v, o |-> FALSE]
i32_add(a, b) == [v |-> wrapping_add(a.v, b.v), o |-> a.o \/ b.o \/ add_overflows(a.v, b.v)]
i32_sub(a, b) == [v |-> wrapping_sub(a.v, b.v), o |-> a.o \/ b.o \/ sub_overflows(a.v, b.v)]
i32_mul(a, b) == [v |-> wrapping_mul(a.v, b.v), o |-> a.o \/ b.o \/ mul_overflows(a.v, b.v)]
i32_abs(a) == [v |-> IF a.v = I32Min THEN I32Min ELSE Abs(a.v), o |-> a.o \/ a.v = I32Min]

\* what a call returns: a value, or a panic
Ok(v) == [panicked |-> FALSE, value |-> v]
Panic == [panicked |-> TRUE, value |-> FALSE]

\* ------------------------------------------------- MiningGoal's methods
StripMine(start, direction, length, height, width) ==
    [kind |-> "StripMine", start |-> start, direction |-> direction,
     length |-> length, height |-> height, width |-> width]
StripMineDirection == { "North", "South", "East", "West" }

\* MiningGoal::can_mine_from_position
can_mine_from_position(pos, target, overflow_checks) ==
    LET dx == i32_abs(i32_sub(I32(pos[1]), I32(target[1])))
        dy == i32_abs(i32_sub(I32(pos[2]), I32(target[2])))
        dz == i32_abs(i32_sub(I32(pos[3]), I32(target[3])))
        distance_squared == i32_add(i32_add(i32_mul(dx, dx), i32_mul(dy, dy)), i32_mul(dz, dz))
    IN IF distance_squared.o /\ overflow_checks THEN Panic
       ELSE Ok(distance_squared.v <= MiningReachSquared)

\* targets.iter().any(|&target| self.can_mine_from_position(pos, target))
RECURSIVE any_can_mine(_, _, _)
any_can_mine(targets, pos, overflow_checks) ==
    IF targets = <<>> THEN Ok(FALSE)
    ELSE LET first == can_mine_from_position(pos, Head(targets), overflow_checks)
         IN IF first.panicked \/ first.value THEN first
            ELSE any_can_mine(Tail(targets), pos, overflow_checks)

\* the closure of the OreVein arm of success: ((dx^2+dy^2+dz^2) as f32).sqrt() <= max_reach
ore_vein_reachable(pos, block_pos, max_reach2) ==
    LET dx == i32_sub(I32(pos[1]), I32(block_pos[1]))
        dy == i32_sub(I32(pos[2]), I32(block_pos[2]))
        dz == i32_sub(I32(pos[3]), I32(block_pos[3]))
        distance == i32_add(i32_add(i32_mul(dx, dx), i32_mul(dy, dy)), i32_mul(dz, dz))
    IN [o |-> distance.o,
        v |-> distance.v >= 0 /\ distance.v <= (max_reach2 * max_reach2) \div 4]

\* impl Goal for MiningGoal: success
success(goal, pos, overflow_checks) ==
    CASE goal.kind = "SingleBlock" -> can_mine_from_position(pos, goal.target, overflow_checks)
      [] goal.kind = "MultipleBlocks" ->
            IF goal.allow_internal_mining THEN any_can_mine(goal.targets, pos, overflow_checks)
            ELSE IF pos \in Range(goal.targets) THEN Ok(FALSE)
            ELSE any_can_mine(goal.targets, pos, overflow_checks)
      [] goal.kind = "OreVein" ->
            IF overflow_checks /\ \E b \in goal.blocks : ore_vein_reachable(pos, b, goal.max_reach2).o
            THEN Panic
            ELSE Ok(Cardinality({ b \in goal.blocks :
                                   ore_vein_reachable(pos, b, goal.max_reach2).v }) >= 3)
      [] OTHER -> Ok(distance_squared_to(pos, goal.start) <= StripMineEntrySquared)

\* impl Goal for PriorizedMiningGoal: success, goals.iter().any(..) from goal i on
RECURSIVE any_goal_success(_, _, _, _)
any_goal_success(goals, i, pos, overflow_checks) ==
    IF i > Len(goals) THEN Ok(FALSE)
    ELSE LET first == success(goals[i][1], pos, overflow_checks)
         IN IF first.panicked \/ first.value THEN first
            ELSE any_goal_success(goals, i + 1, pos, overflow_checks)

\* success of the Box<dyn Goal> that update_mining_goal returns
dyn_success(goal, pos, overflow_checks) ==
    IF goal.kind = "PriorizedMiningGoal"
    THEN any_goal_success(goal.goals, 1, pos, overflow_checks)
    ELSE success(goal, pos, overflow_checks)

\* generate_strip_mine_positions with the band starting at start, not centred
generate_strip_mine_positions_uncentred(start, direction, length, height, width) ==
    LET dx == CASE direction = "East" -> 1 [] direction = "West" -> -1 [] OTHER -> 0
        dz == CASE direction = "South" -> 1 [] direction = "North" -> -1 [] OTHER -> 0
        at(l, h, w) ==
            << start[1] + (dx * l) + (IF dx = 0 THEN w ELSE 0),
               start[2] + h,
               start[3] + (dz * l) + (IF dz = 0 THEN w ELSE 0) >>
    IN [i \in 1..(length * height * width) |->
            at((i - 1) \div (height * width), ((i - 1) \div width) % height, (i - 1) % width)]

\* MiningGoal::generate_strip_mine_positions: the loops over l, h and w
generate_strip_mine_positions(start, direction, length, height, width) ==
    LET dx == CASE direction = "East" -> 1 [] direction = "West" -> -1 [] OTHER -> 0
        dz == CASE direction = "South" -> 1 [] direction = "North" -> -1 [] OTHER -> 0
        at(l, h, w) ==
            << start[1] + (dx * l) + (IF dx = 0 THEN w - TruncDiv(width, 2) ELSE 0),
               start[2] + h,
               start[3] + (dz * l) + (IF dz = 0 THEN w - TruncDiv(width, 2) ELSE 0) >>
    IN [i \in 1..(length * height * width) |->
            at((i - 1) \div (height * width), ((i - 1) \div width) % height, (i - 1) % width)]

\* MiningGoal::get_target_positions; order is the iteration order of the
\* HashSet of an OreVein
get_target_positions(goal, order) ==
    CASE goal.kind = "SingleBlock" -> << goal.target >>
      [] goal.kind = "MultipleBlocks" -> goal.targets
      [] goal.kind = "OreVein" -> order
      [] OTHER -> generate_strip_mine_positions(goal.start, goal.direction,
                                                goal.length, goal.height, goal.width)

\* ------------------------------------ MiningGoal's methods on drawn goals
GoalIdle ==
    /\ g_locations = <<>>
    /\ g_player = <<0, 0, 0>>
    /\ g_order = <<>>
    /\ g_called = {}
    /\ g_veins = <<>>
    /\ g_goal = None

\* positions around the target, out to where dx * dx leaves the i32 range
ReachTargets == { <<0, 64, 0>> }
ReachPositions == { 0, 2, 4, 5, 26754, 46341, 65536 } \X { 64, 66, 68 } \X { 0, 2, 4 }
SuccessCalls ==
    { [op |-> "success", goal |-> SingleBlock(target, None), pos |-> pos,
       overflow_checks |-> oc] :
      target \in ReachTargets, pos \in ReachPositions, oc \in BOOLEAN }
StripMineCalls ==
    { [op |-> "get_target_positions",
       goal |-> StripMine(<<0, 64, 0>>, direction, length, height, width)] :
      direction \in StripMineDirection, length \in 0..MaxStripDim,
      height \in 0..MaxStripDim, width \in 0..MaxStripDim }

GoalMethodInit ==
    /\ new(DefaultConfig)
    /\ MiningCache_new(None)
    /\ GoalIdle
    /\ fn_call \in SuccessCalls \cup StripMineCalls
    /\ fn_rets = <<>>

call_success ==
    /\ fn_call.op = "success"
    /\ Len(fn_rets) < MaxCalls
    /\ fn_rets' = Append(fn_rets, success(fn_call.goal, fn_call.pos, fn_call.overflow_checks))
    /\ UNCHANGED << procvars, goalvars, cachevars, fn_call >>

call_get_target_positions ==
    /\ fn_call.op = "get_target_positions"
    /\ Len(fn_rets) < MaxCalls
    /\ fn_rets' = Append(fn_rets, Ok(get_target_positions(fn_call.goal, <<>>)))
    /\ UNCHANGED << procvars, goalvars, cachevars, fn_call >>

GoalMethodNext == call_success \/ call_get_target_positions

GoalMethodSpec == GoalMethodInit /\ [][GoalMethodNext]_vars

\* ------------------------------------------------------------ WorldScanner
\* A Section's states (azalea_world's PalettedContainer): a palette and, per
\* block, an index into it; with the global palette the state itself.  Only
\* the blocks that differ from the section's filling are listed (overrides),
\* by their position y * 256 + z * 16 + x, the order of the loops of
\* scan_chunk_section.
Section(kind, states, filling, overrides) ==
    [kind |-> kind, states |-> states, filling |-> filling, overrides |-> overrides]
\* the state that a palette index (with the global palette: a state) stands for
palette_value(section, id) ==
    CASE section.kind = "SingleValue" -> section.states[1]
      [] section.kind = "Global" -> id
      [] OTHER -> section.states[id]
\* section.states.get(pos)
section_get(section, i) ==
    palette_value(section, IF i \in DOMAIN section.overrides THEN section.overrides[i]
                           ELSE section.filling)

ScanRequest(block_states, center_pos, max_radius, max_results, y_level_threshold) ==
    [block_states |-> block_states, center_pos |-> center_pos, max_radius |-> max_radius,
     max_results |-> max_results, y_level_threshold |-> y_level_threshold]

\* spiral_chunk_positions returning the whole square, not its outer ring
spiral_chunk_positions_filled(center, radius) ==
    LET side == 2 * radius + 1
    IN [i \in 1..(side * side) |->
           << center[1] + ((i - 1) \div side) - radius, center[2] + ((i - 1) % side) - radius >>]

\* WorldScanner::spiral_chunk_positions: the loops over x and z
spiral_chunk_positions(center, radius) ==
    IF radius = 0 THEN << center >>
    ELSE LET r == radius
             side == 2 * r + 1
             all == [i \in 1..(side * side) |-> << ((i - 1) \div side) - r, ((i - 1) % side) - r >>]
             on_ring(c) == (Abs(c[1]) = r \/ Abs(c[2]) = r) /\ Abs(c[1]) <= r /\ Abs(c[2]) <= r
             kept == SelectSeq(all, on_ring)
         IN [i \in 1..Len(kept) |-> << center[1] + kept[i][1], center[2] + kept[i][2] >>]

\* WorldScanner::get_prioritized_y_sections
get_prioritized_y_sections(player_y, threshold) ==
    LET player_section == TruncDiv(player_y, 16)
        last == TruncDiv(threshold, 16)
        \* offset 0 pushes one section, every later offset two
        sections == [i \in 1..(IF last < 0 THEN 0 ELSE 2 * last + 1) |->
                        IF i = 1 THEN player_section
                        ELSE IF i % 2 = 0 THEN player_section + (i \div 2)
                        ELSE player_section - (i \div 2)]
        in_world(y) == y >= MinSectionY /\ y <= MaxSectionY
    IN SelectSeq(sections, in_world)

\* WorldScanner::palette_contains_target, checking only the first palette entry
palette_contains_target_first(section, targets) ==
    CASE section.kind = "Global" -> TRUE
      [] OTHER -> section.states # <<>> /\ section.states[1] \in targets

\* WorldScanner::palette_contains_target
palette_contains_target(section, targets) ==
    CASE section.kind = "SingleValue" -> section.states[1] \in targets
      [] section.kind = "Linear" -> \E i \in 1..Len(section.states) : section.states[i] \in targets
      [] section.kind = "Hashmap" -> \E i \in 1..Len(section.states) : section.states[i] \in targets
      [] OTHER -> TRUE

\* the first block at or after position i of the loops of scan_chunk_section
\* that holds a target state; SectionBlocks if there is none
next_match(section, targets, i) ==
    IF palette_value(section, section.filling) \in targets
    THEN \* the filling is a target: skip the listed blocks that are not
         LET blocked == { j \in DOMAIN section.overrides : section_get(section, j) \notin targets }
             j == CHOOSE j \in i..(i + Cardinality(blocked)) :
                      j \notin blocked /\ \A k \in i..(j - 1) : k \in blocked
         IN IF j < SectionBlocks THEN j ELSE SectionBlocks
    ELSE LET found == { j \in DOMAIN section.overrides : j >= i /\ section_get(section, j) \in targets }
         IN IF found = {} THEN SectionBlocks
            ELSE CHOOSE j \in found : \A k \in found : j <= k

\* WorldScanner::scan_chunk_section after the palette check: the loops over
\* y, z and x, entered at position i
RECURSIVE walk_section(_, _, _, _, _, _, _)
walk_section(results, chunk_pos, section, section_y, request, world_min_y, i) ==
    LET n == next_match(section, request.block_states, i)
        block_pos == << chunk_pos[1] * ChunkWidth + (n % 16),
                        world_min_y + section_y * 16 + (n \div 256),
                        chunk_pos[2] * ChunkWidth + ((n \div 16) % 16) >>
        pushed == Append(results, block_pos)
    IN IF n >= SectionBlocks THEN results
       ELSE IF Len(pushed) >= request.max_results THEN pushed
       ELSE walk_section(pushed, chunk_pos, section, section_y, request, world_min_y, n + 1)

\* WorldScanner::scan_chunk_section
scan_chunk_section(results, chunk_pos, section, section_y, request, world_min_y) ==
    IF ~palette_contains_target(section, request.block_states) THEN results
    ELSE walk_section(results, chunk_pos, section, section_y, request, world_min_y, 0)

\* An Instance (azalea_world): the loaded chunks, and the blocks that are not
\* stone; each chunk has height / 16 sections, counted from min_y upwards.
Instance(min_y, height, loaded, blocks) ==
    [min_y |-> min_y, height |-> height, loaded |-> loaded, blocks |-> blocks]
PaletteOrder == << "DiamondOre", "DeepslateDiamondOre", "Air" >>
\* chunk_guard.sections.get(section_y as usize) of a loaded chunk
has_section(instance, section_y) == section_y >= 0 /\ section_y < instance.height \div 16
section_at(instance, chunk_pos, section_y) ==
    LET inside == { b \in DOMAIN instance.blocks :
                      /\ ChunkOf(b) = chunk_pos
                      /\ (b[2] - instance.min_y) \div 16 = section_y }
        present(state) == \E b \in inside : instance.blocks[b] = state
        palette == << "Stone" >> \o SelectSeq(PaletteOrder, present)
        id(state) == CHOOSE i \in 1..Len(palette) : palette[i] = state
        at(b) == ((b[2] - instance.min_y) % 16) * 256 + (b[3] % 16) * 16 + (b[1] % 16)
    IN IF inside = {} THEN Section("SingleValue", << "Stone" >>, 1, EmptyMap)
       ELSE Section("Linear", palette, 1,
                    [i \in { at(b) : b \in inside } |->
                        id(instance.blocks[CHOOSE b \in inside : at(b) = i])])

\* the key of the sort of scan_for_blocks
manhattan(pos, center_pos) ==
    Abs(pos[1] - center_pos[1]) + Abs(pos[2] - center_pos[2]) + Abs(pos[3] - center_pos[3])
RECURSIVE insert_by_manhattan(_, _, _)
insert_by_manhattan(sorted, pos, center_pos) ==
    IF sorted = <<>> THEN << pos >>
    ELSE IF manhattan(Head(sorted), center_pos) <= manhattan(pos, center_pos)
         THEN << Head(sorted) >> \o insert_by_manhattan(Tail(sorted), pos, center_pos)
         ELSE << pos >> \o sorted
RECURSIVE sort_by_manhattan(_, _)
sort_by_manhattan(positions, center_pos) ==
    IF positions = <<>> THEN <<>>
    ELSE insert_by_manhattan(sort_by_manhattan(SubSeq(positions, 1, Len(positions) - 1), center_pos),
                             positions[Len(positions)], center_pos)

\* scan_for_blocks, the loop over the sections of one chunk.  A scan carries
\* the positions found and, as history, the chunks taken from the spiral and
\* the sections handed to scan_chunk_section, in order.
RECURSIVE scan_sections(_, _, _, _, _)
scan_sections(scan, chunk_pos, y_sections, instance, request) ==
    IF y_sections = <<>> THEN scan
    ELSE IF ~has_section(instance, Head(y_sections))
         THEN scan_sections(scan, chunk_pos, Tail(y_sections), instance, request)
    ELSE LET section_y == Head(y_sections)
             after == [positions |-> scan_chunk_section(scan.positions, chunk_pos,
                                         section_at(instance, chunk_pos, section_y),
                                         section_y, request, instance.min_y),
                       chunks |-> scan.chunks,
                       sections |-> Append(scan.sections, << chunk_pos, section_y >>)]
         IN IF Len(after.positions) >= request.max_results THEN after
            ELSE scan_sections(after, chunk_pos, Tail(y_sections), instance, request)

\* scan_for_blocks, the loop over the chunks of one ring
RECURSIVE scan_chunks(_, _, _, _, _)
scan_chunks(scan, chunks, y_sections, instance, request) ==
    IF chunks = <<>> THEN scan
    ELSE LET chunk_pos == Head(chunks)
             taken == [scan EXCEPT !.chunks = Append(@, chunk_pos)]
             after == IF chunk_pos \in instance.loaded
                      THEN scan_sections(taken, chunk_pos, y_sections, instance, request)
                      ELSE taken
         IN IF Len(after.positions) >= request.max_results THEN after
            ELSE scan_chunks(after, Tail(chunks), y_sections, instance, request)

\* scan_for_blocks, the loop over the radius
RECURSIVE scan_rings(_, _, _, _, _, _, _)
scan_rings(scan, radius, max_chunk_radius, start_chunk, y_sections, instance, request) ==
    IF radius > max_chunk_radius \/ Len(scan.positions) >= request.max_results THEN scan
    ELSE scan_rings(scan_chunks(scan, spiral_chunk_positions(start_chunk, radius),
                                y_sections, instance, request),
                    radius + 1, max_chunk_radius, start_chunk, y_sections, instance, request)

\* WorldScanner::scan_for_blocks
scan_for_blocks(instance, request) ==
    LET start_chunk == ChunkOf(request.center_pos)
        max_chunk_radius == (request.max_radius + 15) \div 16
        player_y == request.center_pos[2]
        y_sections ==
            IF IsSome(request.y_level_threshold)
            THEN get_prioritized_y_sections(player_y, Unwrap(request.y_level_threshold))
            ELSE LET first == TruncDiv(instance.min_y, 16)
                     last == TruncDiv(instance.min_y + instance.height, 16)
                 IN [i \in 1..(last - first + 1) |-> first + i - 1]
        scan == scan_rings([positions |-> <<>>, chunks |-> <<>>, sections |-> <<>>],
                           0, max_chunk_radius, start_chunk, y_sections, instance, request)
    IN [positions |-> sort_by_manhattan(scan.positions, request.center_pos),
        is_complete |-> Len(scan.positions) < request.max_results,
        chunks |-> scan.chunks, sections |-> scan.sections, y_sections |-> y_sections]

\* --------------------------------------------- WorldScanner on drawn worlds
\* The player stands at (8, 64, 8) in chunk (0, 0).  Ores: next to the player;
\* in the lowest section of the player's chunk; one chunk east; two chunks
\* west.
ScanCenter == << 8, 64, 8 >>
OrePlacements ==
    [b \in { << 8, 64, 9 >>, << 0, -60, 0 >>, << 16, 64, 8 >>, << -20, 64, 8 >>,
             << 8, 300, 8 >> } |->
        IF b = << 16, 64, 8 >> THEN "DeepslateDiamondOre" ELSE "DiamondOre"]
ChunkSquare(center, r) ==
    { << center[1] + x, center[2] + z >> : x \in (-r)..r, z \in (-r)..r }
Instances ==
    { Instance(-64, 384, ChunkSquare(<<0, 0>>, MaxChunkRadius + 1) \ unloaded,
               [b \in placed |-> OrePlacements[b]]) :
      unloaded \in { {}, { << 1, 0 >> } }, placed \in SUBSET DOMAIN OrePlacements }
TargetSets == { { "DiamondOre" }, { "DiamondOre", "DeepslateDiamondOre" } }
ScanRequests ==
    { ScanRequest(targets, ScanCenter, max_radius, max_results, threshold) :
      targets \in TargetSets,
      max_radius \in { 1 } \cup { ChunkWidth * r : r \in 0..MaxChunkRadius },
      max_results \in 0..MaxResults,
      threshold \in { None, Some(16) } }
ScanCalls ==
    { [op |-> "scan_for_blocks", instance |-> instance, request |-> request] :
      instance \in Instances, request \in ScanRequests }

\* sections of every palette kind, with up to two blocks that differ from
\* the filling
SectionStates == { "Stone", "Air", "DiamondOre" }
Palettes == { << "Stone", "Air" >>, << "Stone", "DiamondOre" >>, << "DiamondOre", "Stone" >>,
              << "Stone", "Air", "DiamondOre" >> }
OverridesOf(ids) ==
    UNION { [at -> ids] : at \in SUBSET { 5, SectionBlocks - 1 } }
Sections ==
    { Section("SingleValue", << state >>, 1, EmptyMap) : state \in SectionStates }
    \cup UNION { { Section(kind, palette, filling, overrides) :
                   kind \in { "Linear", "Hashmap" },
                   filling \in 1..Len(palette),
                   overrides \in OverridesOf(1..Len(palette)) } : palette \in Palettes }
    \cup { Section("Global", <<>>, filling, overrides) :
           filling \in SectionStates, overrides \in OverridesOf(SectionStates) }
SectionCalls ==
    { [op |-> "scan_chunk_section", results |-> results, chunk_pos |-> << 0, 0 >>,
       section |-> section, section_y |-> 8,
       request |-> ScanRequest(targets, ScanCenter, ChunkWidth, max_results, None),
       world_min_y |-> -64] :
      results \in { <<>>, << << 0, -60, 0 >> >> }, section \in Sections,
      targets \in TargetSets, max_results \in 1..MaxResults }

\* the player's Y and the preferred band (y_min, y_max)
PlayerYs == { -60, 11, 64, 300 }
PreferYLevels == { << -64, 16 >>, << 0, 15 >>, << 0, 40 >>, << 5, 12 >>, << -32, -17 >>,
                   << 64, 79 >>, << 48, 95 >> }
YSectionCalls ==
    { [op |-> "get_prioritized_y_sections", player_y |-> player_y, prefer_y_levels |-> band] :
      player_y \in PlayerYs, band \in PreferYLevels }

ScanInit ==
    /\ new(DefaultConfig)
    /\ MiningCache_new(None)
    /\ GoalIdle
    /\ fn_call \in ScanCalls \cup SectionCalls \cup YSectionCalls
    /\ fn_call.op = "scan_chunk_section" => Len(fn_call.results) < fn_call.request.max_results
    /\ fn_rets = <<>>

call_scan_for_blocks ==
    /\ fn_call.op = "scan_for_blocks"
    /\ Len(fn_rets) < MaxCalls
    /\ fn_rets' = Append(fn_rets, scan_for_blocks(fn_call.instance, fn_call.request))
    /\ UNCHANGED << procvars, goalvars, cachevars, fn_call >>

call_scan_chunk_section ==
    /\ fn_call.op = "scan_chunk_section"
    /\ Len(fn_rets) < MaxCalls
    /\ fn_rets' = Append(fn_rets, scan_chunk_section(fn_call.results, fn_call.chunk_pos,
                                      fn_call.section, fn_call.section_y, fn_call.request,
                                      fn_call.world_min_y))
    /\ UNCHANGED << procvars, goalvars, cachevars, fn_call >>

\* the y_sections of a scan whose request is built as scan_for_targets
\* builds it: y_level_threshold = max - min
call_get_prioritized_y_sections ==
    /\ fn_call.op = "get_prioritized_y_sections"
    /\ Len(fn_rets) < MaxCalls
    /\ fn_rets' = Append(fn_rets,
                         get_prioritized_y_sections(fn_call.player_y,
                             fn_call.prefer_y_levels[2] - fn_call.prefer_y_levels[1]))
    /\ UNCHANGED << procvars, goalvars, cachevars, fn_call >>

ScanNext == call_scan_for_blocks \/ call_scan_chunk_section \/ call_get_prioritized_y_sections

ScanSpec == ScanInit /\ [][ScanNext]_vars

\* ------------------------------------------------------ MiningCache costs
\* An f32 cost: +infinity, or the exact quotient num / den
Infinity == [inf |-> TRUE, num |-> 0, den |-> 1]
Finite(num, den) == [inf |-> FALSE, num |-> num, den |-> den]

CostBlocks == { "Stone", "DiamondOre", "Bedrock", "ShortGrass" }
Menus == { "EmptyHotbar", "DiamondPickaxeInSlot3" }
\* auto_tool::best_tool_in_hotbar_for_block: the slot of the best tool and the
\* share of the block it breaks per tick (0 for a block that cannot be broken,
\* 1 for one that breaks at once)
best_tool_in_hotbar_for_block(block, menu) ==
    LET pickaxe == menu = "DiamondPickaxeInSlot3"
    IN CASE block = "Bedrock" -> [index |-> 0, percentage_per_tick |-> Ratio(0, 1)]
         [] block = "ShortGrass" -> [index |-> 0, percentage_per_tick |-> Ratio(1, 1)]
         [] block = "Stone" ->
               IF pickaxe THEN [index |-> 3, percentage_per_tick |-> Ratio(8, 45)]
               ELSE [index |-> 0, percentage_per_tick |-> Ratio(1, 150)]
         [] OTHER ->
               IF pickaxe THEN [index |-> 3, percentage_per_tick |-> Ratio(4, 45)]
               ELSE [index |-> 0, percentage_per_tick |-> Ratio(1, 300)]

\* 1. / percentage_per_tick, without the penalty
block_break_cost_without_penalty(best_tool_result) ==
    LET share == best_tool_result.percentage_per_tick
    IN IF share.num = 0 THEN Infinity ELSE Finite(share.den, share.num)

\* MiningCache::cost_for, the cost of a block that is not cached:
\* 1. / percentage_per_tick + BLOCK_BREAK_ADDITIONAL_PENALTY
block_break_cost(best_tool_result) ==
    LET share == best_tool_result.percentage_per_tick
    IN IF share.num = 0 THEN Infinity
       ELSE Finite(share.den + BLOCK_BREAK_ADDITIONAL_PENALTY * share.num, share.num)

\* MiningCache::cost_for; the block asked for and the cost returned are
\* appended to fn_rets
cost_for(block) ==
    /\ fn_call.op = "cost_for"
    /\ Len(fn_rets) < MaxCostCalls
    /\ IF ~IsSome(inventory_menu)
       THEN /\ fn_rets' = Append(fn_rets, [block |-> block, cost |-> Infinity])
            /\ UNCHANGED << block_state_id_costs, preferred_tools >>
       ELSE IF block \in DOMAIN block_state_id_costs
       THEN /\ fn_rets' = Append(fn_rets, [block |-> block, cost |-> block_state_id_costs[block]])
            /\ UNCHANGED << block_state_id_costs, preferred_tools >>
       ELSE LET best_tool_result == best_tool_in_hotbar_for_block(block, Unwrap(inventory_menu))
                cost == block_break_cost(best_tool_result)
            IN /\ block_state_id_costs' = MapInsert(block_state_id_costs, block, cost)
               /\ preferred_tools' = MapInsert(preferred_tools, block, best_tool_result.index)
               /\ fn_rets' = Append(fn_rets, [block |-> block, cost |-> cost])
    /\ UNCHANGED << procvars, goalvars, fn_call, inventory_menu >>

\* ------------------------------------------------------------- fall costs
\* f32 values of costs.rs in units of 1/FloatScale, rounded towards zero;
\* NaN apart.
Float(v) == [nan |-> FALSE, v |-> v]
NaN == [nan |-> TRUE, v |-> 0]
\* 0.98.powi(ticks)
RECURSIVE powi_098(_)
powi_098(ticks) == IF ticks = 0 THEN FloatScale ELSE (powi_098(ticks - 1) * 98) \div 100
\* costs::velocity: (0.98.powi(ticks) - 1.) * -3.92
velocity(ticks) == ((FloatScale - powi_098(ticks)) * 392) \div 100
\* tick_count as f32 + temp_distance / fall_distance
ticks_plus_fraction(tick_count, temp_distance, fall_distance) ==
    IF fall_distance = 0 THEN NaN
    ELSE Float(tick_count * FloatScale + TruncDiv(temp_distance * FloatScale, fall_distance))

\* costs::distance_to_ticks: the loop, for a distance of whole blocks
RECURSIVE distance_to_ticks_loop(_, _)
distance_to_ticks_loop(temp_distance, tick_count) ==
    LET fall_distance == velocity(tick_count)
    IN IF temp_distance <= fall_distance
       THEN ticks_plus_fraction(tick_count, temp_distance, fall_distance)
       ELSE distance_to_ticks_loop(temp_distance - fall_distance, tick_count + 1)
distance_to_ticks(distance) ==
    IF distance = 0 THEN Float(0) ELSE distance_to_ticks_loop(distance * FloatScale, 0)

\* costs::FALL_N_BLOCKS_COST: the loop that fills the table, for a table of
\* len entries (the entries do not depend on len)
RECURSIVE fall_n_blocks_cost_loop(_, _, _, _, _)
fall_n_blocks_cost_loop(fall_n_blocks_cost, distance, temp_distance, tick_count, len) ==
    LET fall_distance == velocity(tick_count)
    IN IF temp_distance <= fall_distance
       THEN LET filled == Append(fall_n_blocks_cost,
                                 ticks_plus_fraction(tick_count, temp_distance, fall_distance))
            IN IF distance + 1 >= len THEN filled
               ELSE fall_n_blocks_cost_loop(filled, distance + 1, temp_distance - fall_distance,
                                            tick_count + 1, len)
       ELSE fall_n_blocks_cost_loop(fall_n_blocks_cost, distance, temp_distance - fall_distance,
                                    tick_count + 1, len)
\* FALL_N_BLOCKS_COST[n]
FALL_N_BLOCKS_COST(n) == fall_n_blocks_cost_loop(<<>>, 0, 0, 0, n + 1)[n + 1]

\* --------------------------------------------- costs on drawn arguments
CostInit ==
    /\ new(DefaultConfig)
    /\ GoalIdle
    /\ \/ /\ fn_call = [op |-> "cost_for"]
          /\ \E menu \in { None } \cup { Some(m) : m \in Menus } : MiningCache_new(menu)
       \/ /\ fn_call \in { [op |-> "fall", n |-> n] : n \in 1..MaxFall }
          /\ MiningCache_new(None)
    /\ fn_rets = <<>>

read_fall_n_blocks_cost ==
    /\ fn_call.op = "fall"
    /\ Len(fn_rets) < MaxCalls
    /\ fn_rets' = Append(fn_rets, [of |-> "FALL_N_BLOCKS_COST", value |-> FALL_N_BLOCKS_COST(fn_call.n)])
    /\ UNCHANGED << procvars, goalvars, cachevars, fn_call >>

call_distance_to_ticks ==
    /\ fn_call.op = "fall"
    /\ Len(fn_rets) < MaxCalls
    /\ fn_rets' = Append(fn_rets, [of |-> "distance_to_ticks", value |-> distance_to_ticks(fn_call.n)])
    /\ UNCHANGED << procvars, goalvars, cachevars, fn_call >>

CostNext ==
    \/ \E block \in CostBlocks : cost_for(block)
    \/ read_fall_n_blocks_cost
    \/ call_distance_to_ticks

CostSpec == CostInit /\ [][CostNext]_vars

\* ------------------------------------------------------------ water moves
\* f32 costs of the water moves are exact quotients in lowest terms.
RECURSIVE GCD(_, _)
GCD(a, b) == IF b = 0 THEN a ELSE GCD(b, a % b)
F32(num, den) == Finite(num \div GCD(num, den), den \div GCD(num, den))
f32_mul(a, b) == F32(a.num * b.num, a.den * b.den)
f32_add(a, b) == F32(a.num * b.den + b.num * a.den, a.den * b.den)
f32_lt(a, b) == a.num * b.den < b.num * a.den

WALK_ONE_BLOCK_COST == F32(20000, 4317)
SWIMMING_COST == f32_mul(WALK_ONE_BLOCK_COST, F32(18, 10))
SPRINT_SWIMMING_COST == f32_mul(WALK_ONE_BLOCK_COST, F32(15, 10))
FLOW_RESISTANCE_COST == f32_mul(SWIMMING_COST, F32(2, 10))
\* an entry that costs nothing
WATER_ENTRY_COST_free == F32(0, 1)
WATER_ENTRY_COST == F32(2, 1)
WATER_EXIT_COST == F32(15, 10)
AIR_DEPLETION_PENALTY == F32(10, 1)
DROWNING_AVOIDANCE_COST == F32(50, 1)
MaxAir == 300

\* A BlockState: its registry block and the two properties the moves read.
BlockState(block, water_level, waterlogged) ==
    [block |-> block, water_level |-> water_level, waterlogged |-> waterlogged]
Air == BlockState("Air", None, FALSE)
Stone == BlockState("Stone", None, FALSE)
ShortGrass == BlockState("ShortGrass", None, FALSE)
Water == BlockState("Water", Some(0), FALSE)
FlowingWater == BlockState("Water", Some(3), FALSE)
WaterloggedStairs == BlockState("OakStairs", None, TRUE)
Kelp == BlockState("Kelp", None, FALSE)
Lava == BlockState("Lava", Some(0), FALSE)

\* BlockState::is_air and pathfinder::world::is_block_state_passable: air is
\* passable; a block with a collision shape, water, a waterlogged block and
\* lava are not; any other block is.
is_air(block_state) == block_state.block = "Air"
is_block_state_passable(block_state) ==
    \/ is_air(block_state)
    \/ /\ block_state.block \notin { "Stone", "OakStairs", "Water", "Lava" }
       /\ ~block_state.waterlogged

\* The world of a PathfinderCtx: a filling and the blocks that differ from it.
CachedWorld(filling, blocks) == [filling |-> filling, blocks |-> blocks]
get_block_state(world, pos) ==
    IF pos \in DOMAIN world.blocks THEN world.blocks[pos] ELSE world.filling

\* RelBlockPos: +, up and down
pos_add(pos, offset) == << pos[1] + offset[1], pos[2] + offset[2], pos[3] + offset[3] >>
up(pos, n) == pos_add(pos, << 0, n, 0 >>)
down(pos, n) == pos_add(pos, << 0, -n, 0 >>)
\* CardinalDirection::iter() as (x, z): North, South, West, East
CardinalDirections == << << 0, -1 >>, << 0, 1 >>, << -1, 0 >>, << 1, 0 >> >>

classify_water(block_state) ==
    IF block_state.block = "Water"
    THEN IF block_state.water_level = Some(0) THEN Some("StillWater")
         ELSE IF IsSome(block_state.water_level) THEN Some("FlowingWater")
         ELSE Some("StillWater")
    ELSE IF block_state.waterlogged THEN Some("Waterlogged")
    ELSE IF block_state.block \in { "Seagrass", "TallSeagrass", "Kelp", "KelpPlant" }
    THEN Some("StillWater")
    ELSE None

is_water_navigable(water_type) == water_type \in { "StillWater", "Waterlogged" }

\* is_water_safe that looks at the four sides only
is_water_safe_sides_only(world, pos) ==
    \A i \in 1..4 :
        get_block_state(world, pos_add(pos, << CardinalDirections[i][1], 0,
                                               CardinalDirections[i][2] >>)).block # "Lava"

is_water_safe(world, pos) ==
    /\ \A i \in 1..4 :
          get_block_state(world, pos_add(pos, << CardinalDirections[i][1], 0,
                                                 CardinalDirections[i][2] >>)).block # "Lava"
    /\ ~ \/ get_block_state(world, up(pos, 1)).block = "Lava"
         \/ get_block_state(world, down(pos, 1)).block = "Lava"

SwimmingState(consecutive_swim_moves, estimated_air, is_sprint_swimming) ==
    [consecutive_swim_moves |-> consecutive_swim_moves, estimated_air |-> estimated_air,
     is_sprint_swimming |-> is_sprint_swimming]
SwimmingState_default == SwimmingState(0, MaxAir, FALSE)

calculate_swimming_cost(world, current_pos, target_pos, swimming_state) ==
    LET current_submerged == IsSome(classify_water(get_block_state(world, up(current_pos, 1))))
        target_submerged == IsSome(classify_water(get_block_state(world, up(target_pos, 1))))
        base_cost == IF /\ current_submerged /\ target_submerged
                        /\ swimming_state.consecutive_swim_moves >= 3
                     THEN SPRINT_SWIMMING_COST ELSE SWIMMING_COST
        air == swimming_state.estimated_air
        air_ratio == F32(air, MaxAir)
        one_minus == F32(MaxAir - air, MaxAir)
        with_penalty == IF f32_lt(air_ratio, F32(3, 10))
                        THEN f32_add(base_cost,
                                     f32_mul(AIR_DEPLETION_PENALTY, f32_mul(one_minus, one_minus)))
                        ELSE base_cost
    IN IF air <= 20 THEN f32_add(with_penalty, DROWNING_AVOIDANCE_COST) ELSE with_penalty

\* has_nearby_air_access that looks through solid blocks
has_nearby_air_access_through_solid(world, pos, max_distance) ==
    \E y_offset \in 1..max_distance : is_air(get_block_state(world, up(pos, y_offset)))

\* the loop of has_nearby_air_access from y_offset on
RECURSIVE air_access_loop(_, _, _, _)
air_access_loop(world, pos, y_offset, max_distance) ==
    IF y_offset > max_distance THEN FALSE
    ELSE LET block_state == get_block_state(world, up(pos, y_offset))
         IN IF is_air(block_state) THEN TRUE
            ELSE IF /\ ~is_block_state_passable(block_state)
                    /\ ~IsSome(classify_water(block_state))
            THEN FALSE
            ELSE air_access_loop(world, pos, y_offset + 1, max_distance)

has_nearby_air_access(world, pos, max_distance) == air_access_loop(world, pos, 1, max_distance)

Edge(target, execute, cost) == [target |-> target, execute |-> execute, cost |-> cost]

\* the swimming state a generator assumes at a node: the default one, with
\* consecutive_swim_moves set when the block above the node is water
assumed_swimming_state(world, pos, consecutive_swim_moves) ==
    IF IsSome(classify_water(get_block_state(world, up(pos, 1))))
    THEN SwimmingState(consecutive_swim_moves, SwimmingState_default.estimated_air,
                       SwimmingState_default.is_sprint_swimming)
    ELSE SwimmingState_default
water_traverse_swimming_state(world, pos) == assumed_swimming_state(world, pos, 4)
water_ascend_swimming_state(world, pos) == assumed_swimming_state(world, pos, 2)
water_descend_swimming_state(world, pos) == assumed_swimming_state(world, pos, 3)

\* the body of water_traverse_move's loop for one direction: the edge it
\* pushes, if any
water_traverse_edge(world, pos, dir, swimming_state) ==
    LET target_pos == pos_add(pos, << dir[1], 0, dir[2] >>)
        target_block == get_block_state(world, target_pos)
        target_water == classify_water(target_block)
        above_target == get_block_state(world, up(target_pos, 1))
        base == IF IsSome(target_water)
                THEN calculate_swimming_cost(world, pos, target_pos, swimming_state)
                ELSE WATER_EXIT_COST
        resisted == IF target_water = Some("FlowingWater")
                    THEN f32_add(base, FLOW_RESISTANCE_COST) ELSE base
        cost == IF has_nearby_air_access(world, target_pos, 3)
                THEN f32_mul(resisted, F32(9, 10)) ELSE resisted
    IN IF IsSome(target_water) /\ ~is_water_navigable(Unwrap(target_water)) THEN None
       ELSE IF ~IsSome(target_water) /\ ~is_block_state_passable(target_block) THEN None
       ELSE IF ~is_water_safe(world, target_pos) THEN None
       ELSE IF ~is_block_state_passable(above_target) /\ ~IsSome(classify_water(above_target))
       THEN None
       ELSE Some(Edge(target_pos, "execute_water_traverse", cost))

water_traverse_move(edges, world, pos) ==
    LET swimming_state == water_traverse_swimming_state(world, pos)
        edge(i) == water_traverse_edge(world, pos, CardinalDirections[i], swimming_state)
    IN IF ~IsSome(classify_water(get_block_state(world, pos))) THEN edges
       ELSE edges \o edge(1) \o edge(2) \o edge(3) \o edge(4)

water_ascend_edge(world, pos, dir, swimming_state) ==
    LET target_pos == pos_add(pos, << dir[1], 1, dir[2] >>)
        target_block == get_block_state(world, target_pos)
        target_water == classify_water(target_block)
        base == IF IsSome(target_water)
                THEN f32_mul(calculate_swimming_cost(world, pos, target_pos, swimming_state),
                             F32(13, 10))
                ELSE f32_mul(SWIMMING_COST, F32(8, 10))
        cost == IF is_air(target_block) \/ has_nearby_air_access(world, target_pos, 2)
                THEN f32_mul(base, F32(7, 10)) ELSE base
    IN IF IsSome(target_water) /\ ~is_water_navigable(Unwrap(target_water)) THEN None
       ELSE IF ~IsSome(target_water) /\ ~is_block_state_passable(target_block) THEN None
       ELSE IF ~is_water_safe(world, target_pos) THEN None
       ELSE Some(Edge(target_pos, "execute_water_ascend", cost))

water_ascend_move(edges, world, pos) ==
    LET swimming_state == water_ascend_swimming_state(world, pos)
        edge(i) == water_ascend_edge(world, pos, CardinalDirections[i], swimming_state)
    IN IF ~IsSome(classify_water(get_block_state(world, pos))) THEN edges
       ELSE edges \o edge(1) \o edge(2) \o edge(3) \o edge(4)

water_descend_edge(world, pos, dir, swimming_state) ==
    LET target_pos == pos_add(pos, << dir[1], -1, dir[2] >>)
        target_water == classify_water(get_block_state(world, target_pos))
        base_cost == calculate_swimming_cost(world, pos, target_pos, swimming_state)
        descent == f32_mul(base_cost, F32(9, 10))
        low_air == IF swimming_state.estimated_air < 100
                   THEN f32_mul(descent, F32(15, 10)) ELSE descent
        cost == IF ~has_nearby_air_access(world, target_pos, 4)
                THEN f32_mul(low_air, F32(12, 10)) ELSE low_air
    IN IF ~IsSome(target_water) THEN None
       ELSE IF ~is_water_navigable(Unwrap(target_water)) THEN None
       ELSE IF ~is_water_safe(world, target_pos) THEN None
       ELSE Some(Edge(target_pos, "execute_water_descend", cost))

water_descend_move(edges, world, pos) ==
    LET swimming_state == water_descend_swimming_state(world, pos)
        edge(i) == water_descend_edge(world, pos, CardinalDirections[i], swimming_state)
    IN IF ~IsSome(classify_water(get_block_state(world, pos))) THEN edges
       ELSE edges \o edge(1) \o edge(2) \o edge(3) \o edge(4)

water_entry_edge(world, pos, dir) ==
    LET target_pos == pos_add(pos, << dir[1], 0, dir[2] >>)
        target_water == classify_water(get_block_state(world, target_pos))
    IN IF ~IsSome(target_water) THEN None
       ELSE IF ~is_water_navigable(Unwrap(target_water)) THEN None
       ELSE IF ~is_water_safe(world, target_pos) THEN None
       ELSE Some(Edge(target_pos, "execute_water_entry", WATER_ENTRY_COST))

water_entry_moves(edges, world, pos) ==
    LET edge(i) == water_entry_edge(world, pos, CardinalDirections[i])
    IN IF IsSome(classify_water(get_block_state(world, pos))) THEN edges
       ELSE edges \o edge(1) \o edge(2) \o edge(3) \o edge(4)

water_moves(edges, world, node) ==
    water_entry_moves(
        water_descend_move(water_ascend_move(water_traverse_move(edges, world, node),
                                             world, node),
                           world, node),
        world, node)

\* ------------------------------------------------ water moves on drawn worlds
\* The node is the origin; the worlds vary the node's block, the block east
\* of it, the block above that one, the filling, and one block of lava next
\* to the targets.
WaterNode == << 0, 0, 0 >>
NodeBlocks == { Air, Stone, Water, FlowingWater, WaterloggedStairs, Kelp }
TargetBlocks == { Air, Stone, ShortGrass, Water, FlowingWater, WaterloggedStairs, Kelp, Lava }
AboveBlocks == { Air, Stone, Water }
Fillings == { Air, Stone, Water }
LavaPositions == { << 2, 0, 0 >>, << 1, 0, 1 >>, << 1, -1, 0 >>, << 1, 2, 0 >>,
                   << 0, 2, 1 >>, << -1, -2, 0 >>, << 0, 0, -2 >> }
NeighbourWorlds ==
    { CachedWorld(filling,
                  [pos \in { WaterNode, << 1, 0, 0 >>, << 1, 1, 0 >> } \cup lava |->
                      IF pos \in lava THEN Lava
                      ELSE IF pos = WaterNode THEN node
                      ELSE IF pos = << 1, 0, 0 >> THEN target ELSE above]) :
      filling \in Fillings, node \in NodeBlocks, target \in TargetBlocks, above \in AboveBlocks,
      lava \in { {} } \cup { { pos } : pos \in LavaPositions } }
\* a water node in stone with a column of blocks east of it, from the
\* node's height up
ColumnBlocks == { Air, Water, Stone, ShortGrass }
ColumnWorlds ==
    { CachedWorld(Stone,
                  [pos \in { WaterNode } \cup { << 1, y, 0 >> : y \in 0..MaxColumn } |->
                      IF pos = WaterNode THEN Water ELSE column[pos[2]]]) :
      column \in [0..MaxColumn -> ColumnBlocks] }
WaterWorlds == NeighbourWorlds \cup ColumnWorlds
WaterOps == { "water_moves", "water_traverse_move", "water_ascend_move", "water_descend_move",
              "water_entry_moves" }
WaterCalls == { [op |-> op, world |-> world, node |-> WaterNode] :
                op \in WaterOps, world \in WaterWorlds }

WaterInit ==
    /\ new(DefaultConfig)
    /\ MiningCache_new(None)
    /\ GoalIdle
    /\ fn_call \in WaterCalls
    /\ fn_rets = <<>>

call_water_moves ==
    /\ fn_call.op = "water_moves"
    /\ Len(fn_rets) < MaxCalls
    /\ fn_rets' = Append(fn_rets, water_moves(<<>>, fn_call.world, fn_call.node))
    /\ UNCHANGED << procvars, goalvars, cachevars, fn_call >>

call_water_traverse_move ==
    /\ fn_call.op = "water_traverse_move"
    /\ Len(fn_rets) < MaxCalls
    /\ fn_rets' = Append(fn_rets, water_traverse_move(<<>>, fn_call.world, fn_call.node))
    /\ UNCHANGED << procvars, goalvars, cachevars, fn_call >>

call_water_ascend_move ==
    /\ fn_call.op = "water_ascend_move"
    /\ Len(fn_rets) < MaxCalls
    /\ fn_rets' = Append(fn_rets, water_ascend_move(<<>>, fn_call.world, fn_call.node))
    /\ UNCHANGED << procvars, goalvars, cachevars, fn_call >>

call_water_descend_move ==
    /\ fn_call.op = "water_descend_move"
    /\ Len(fn_rets) < MaxCalls
    /\ fn_rets' = Append(fn_rets, water_descend_move(<<>>, fn_call.world, fn_call.node))
    /\ UNCHANGED << procvars, goalvars, cachevars, fn_call >>

call_water_entry_moves ==
    /\ fn_call.op = "water_entry_moves"
    /\ Len(fn_rets) < MaxCalls
    /\ fn_rets' = Append(fn_rets, water_entry_moves(<<>>, fn_call.world, fn_call.node))
    /\ UNCHANGED << procvars, goalvars, cachevars, fn_call >>

WaterNext ==
    \/ call_water_moves
    \/ call_water_traverse_move
    \/ call_water_ascend_move
    \/ call_water_descend_move
    \/ call_water_entry_moves

WaterSpec == WaterInit /\ [][WaterNext]_vars

\* ------------------------------------------------- paths of water edges
\* The planner expands a node with water_moves and later expands the target
\* of one of the edges it got: a path is the sequence of the edges followed,
\* each with the node it leaves.
Layer(y) == { << x, y, z >> : x \in -(MaxPath + 1)..(MaxPath + 1), z \in -(MaxPath + 1)..(MaxPath + 1) }
\* open water with air from height surface on
SurfaceWorld(surface) ==
    CachedWorld(Water, [pos \in Layer(surface) \cup Layer(surface + 1) \cup Layer(surface + 2) |-> Air])
PathWorlds ==
    { CachedWorld(Water, [pos \in {} |-> Air]),
      CachedWorld(Water, [pos \in { WaterNode, up(WaterNode, 1) } |-> Air]) }
    \cup { SurfaceWorld(surface) : surface \in 1..3 }
PathCalls == { [op |-> "path", world |-> world, node |-> WaterNode] : world \in PathWorlds }

path_node == IF fn_rets = <<>> THEN fn_call.node ELSE fn_rets[Len(fn_rets)].edge.target

PathInit ==
    /\ new(DefaultConfig)
    /\ MiningCache_new(None)
    /\ GoalIdle
    /\ fn_call \in PathCalls
    /\ fn_rets = <<>>

follow_edge ==
    /\ fn_call.op = "path"
    /\ Len(fn_rets) < MaxPath
    /\ \E edge \in Range(water_moves(<<>>, fn_call.world, path_node)) :
          fn_rets' = Append(fn_rets, [from |-> path_node, edge |-> edge])
    /\ UNCHANGED << procvars, goalvars, cachevars, fn_call >>

PathNext == follow_edge

PathSpec == PathInit /\ [][PathNext]_vars

\* ------------------------------------------------ WorldScanner's ore cache
\* get_cached_ore_locations: the positions cached for block_state that were
\* seen at most max_age ago and are not marked inaccessible
get_cached_ore_locations(cache, block_state, max_age, t) ==
    IF block_state \in DOMAIN cache
    THEN LET kept == SelectSeq(cache[block_state],
                               LAMBDA loc : /\ t - loc.last_seen <= max_age
                                            /\ (IF IsSome(loc.is_accessible)
                                                THEN Unwrap(loc.is_accessible) ELSE TRUE))
         IN [i \in 1..Len(kept) |-> kept[i].pos]
    ELSE <<>>

\* locations.iter_mut().find(|loc| loc.pos == pos): the index of the first
\* location at pos, 0 when there is none
find_location(locations, pos) ==
    IF \E i \in 1..Len(locations) : locations[i].pos = pos
    THEN CHOOSE i \in 1..Len(locations) :
            locations[i].pos = pos /\ \A j \in 1..(i - 1) : locations[j].pos # pos
    ELSE 0

\* the loop of mark_ore_accessibility over cache.values_mut(), from the k-th
\* value of the map's iteration order on
RECURSIVE mark_ore_accessibility_loop(_, _, _, _, _)
mark_ore_accessibility_loop(cache, pos, accessible, order, k) ==
    IF k > Len(order) THEN cache
    ELSE LET found == find_location(cache[order[k]], pos)
         IN IF found # 0
            THEN [cache EXCEPT ![order[k]][found].is_accessible = Some(accessible)]
            ELSE mark_ore_accessibility_loop(cache, pos, accessible, order, k + 1)

mark_ore_accessibility(cache, pos, accessible, order) ==
    mark_ore_accessibility_loop(cache, pos, accessible, order, 1)

\* ------------------------------------------ the ore cache on drawn calls
CachePositions == { << 10, 64, 10 >>, << 11, 64, 10 >> }
CacheLocationLists == { << << 10, 64, 10 >> >>, << << 11, 64, 10 >>, << 10, 64, 10 >> >> }
MaxAges == { 0 }
procvars_but_ore_cache ==
    << target_blocks, desired_quantity, current_known_locations, blacklisted_positions,
       current_goal, mining_sequence, last_scan_time, scan_interval, max_mining_distance,
       prefer_y_levels, avoid_blocks, config, now, ret, blacklist_log, scan_log, last_control >>

\* WorldScanner::new(): the cache is empty; fn_rets is the log of the calls
CacheInit ==
    /\ new(DefaultConfig)
    /\ MiningCache_new(None)
    /\ GoalIdle
    /\ fn_call = [op |-> "ore_cache"]
    /\ fn_rets = <<>>

call_cache_ore_locations(block_state, locations) ==
    /\ fn_call.op = "ore_cache"
    /\ Len(fn_rets) < MaxCacheCalls
    /\ ore_cache' = cache_ore_locations(ore_cache, block_state, locations, now)
    /\ fn_rets' = Append(fn_rets, [op |-> "cache_ore_locations", block_state |-> block_state,
                                   locations |-> locations])
    /\ UNCHANGED << procvars_but_ore_cache, goalvars, cachevars, fn_call >>

call_mark_ore_accessibility(pos, accessible) ==
    /\ fn_call.op = "ore_cache"
    /\ Len(fn_rets) < MaxCacheCalls
    /\ \E order \in Orders(DOMAIN ore_cache) :
          ore_cache' = mark_ore_accessibility(ore_cache, pos, accessible, order)
    /\ fn_rets' = Append(fn_rets, [op |-> "mark_ore_accessibility", pos |-> pos,
                                   accessible |-> accessible])
    /\ UNCHANGED << procvars_but_ore_cache, goalvars, cachevars, fn_call >>

call_get_cached_ore_locations(block_state, max_age) ==
    /\ fn_call.op = "ore_cache"
    /\ Len(fn_rets) < MaxCacheCalls
    /\ fn_rets' = Append(fn_rets, [op |-> "get_cached_ore_locations", block_state |-> block_state,
                                   max_age |-> max_age,
                                   positions |-> get_cached_ore_locations(ore_cache, block_state,
                                                                          max_age, now)])
    /\ UNCHANGED << procvars, goalvars, cachevars, fn_call >>

CacheNext ==
    \/ \E block_state \in OreStates, locations \in CacheLocationLists :
          call_cache_ore_locations(block_state, locations)
    \/ \E pos \in CachePositions, accessible \in BOOLEAN :
          call_mark_ore_accessibility(pos, accessible)
    \/ \E block_state \in OreStates, max_age \in MaxAges :
          call_get_cached_ore_locations(block_state, max_age)

CacheSpec == CacheInit /\ [][CacheNext]_vars

\* ================================================================= claims
\* the target positions of a goal (of every goal of a PriorizedMiningGoal)
RECURSIVE GoalTargets(_)
GoalTargets(goal) ==
    CASE goal.kind = "SingleBlock" -> { goal.target }
      [] goal.kind = "MultipleBlocks" -> Range(goal.targets)
      [] goal.kind = "OreVein" -> goal.blocks
      [] goal.kind = "PriorizedMiningGoal" ->
            UNION { GoalTargets(goal.goals[i][1]) : i \in 1..Len(goal.goals) }
      [] OTHER -> {}

\* update has just returned
Updated == ret.op = "update"

\* pos holds a block of a target state in the world handed to the last
\* update, within max_mining_distance of the player
IsTargetInWorld(pos) ==
    /\ pos \in DOMAIN ret.args.world
    /\ ret.args.world[pos] \in target_blocks
    /\ distance_squared_to(pos, ret.args.player_pos) <= max_mining_distance * max_mining_distance

\* C1: when desired_quantity is Some(q) with q >= 1 and the inventory handed
\* to update holds at least q of the targets' drops, update returns
\* QuantityReached(n) with n >= q.
C1_QuantityReached ==
    (Updated /\ IsSome(desired_quantity) /\ Unwrap(desired_quantity) >= 1
        /\ ret.args.inventory >= Unwrap(desired_quantity))
    => (ret.result.tag = "QuantityReached" /\ ret.result.n >= Unwrap(desired_quantity))

\* C2: after start_mining with a non-empty target set, an update that scans
\* a world holding a target block in range that is not blacklisted returns
\* GoalUpdated with a goal that has this block among its targets.
C2_ScanFindsTarget ==
    (Updated /\ ret.scanned /\ last_control = "start_mining" /\ target_blocks # {})
    => \A pos \in ProcPositions :
          (IsTargetInWorld(pos) /\ ~is_blacklisted(blacklisted_positions, pos, now))
          => (ret.result.tag = "GoalUpdated" /\ pos \in GoalTargets(ret.result.goal))

\* C3: after blacklist_position(p, d) at t0, every scan at a time in
\* [t0, t0 + d) leaves p out of current_known_locations, and a scan at
\* t >= t0 + d reports p again when the world holds it as a target.
C3_BlacklistWindow ==
    (Updated /\ ret.scanned)
    => \A pos \in DOMAIN blacklist_log :
          /\ now < blacklist_log[pos] => pos \notin Range(current_known_locations)
          /\ (now >= blacklist_log[pos] /\ IsTargetInWorld(pos))
                => pos \in Range(current_known_locations)

C5_StoppedStaysStopped ==
    last_control = "stop" => (~is_active /\ current_known_locations = <<>>)

\* C5 witness: an update that scanned has returned after stop().
C5_Witness == last_control = "stop" /\ Updated /\ ret.scanned /\ now > 0

\* a step of update: the only step that leaves "update" in ret and does not
\* move the clock
UpdateStep == ret'.op = "update" /\ now' = now

\* no scan since the process was created or restarted, or scan_interval has
\* elapsed since the last one
ScanDue == ~IsSome(scan_log) \/ now - Unwrap(scan_log) >= scan_interval

\* C6 as stated: update scans exactly when a scan is due.
C6_ScanExactlyWhenDue == [][UpdateStep => (ret'.scanned <=> ScanDue)]_vars

\* C6 amended: update scans exactly when a scan is due and the quantity
\* check has not returned QuantityReached first; it then records the scan
\* time, and a scan follows the previous scan of the same run of the process
\* by at least scan_interval.
C6_ScanWhenDueUnlessReached ==
    [][UpdateStep =>
        /\ ret'.scanned <=> (ScanDue /\ ret'.result.tag # "QuantityReached")
        /\ ret'.scanned =>
              /\ last_scan_time' = Some(now)
              /\ IsSome(scan_log) => now - Unwrap(scan_log) >= scan_interval]_vars

\* C6 witness: update has scanned and recorded the time, scan_interval or
\* more after the process was created.
C6_Witness ==
    /\ Updated /\ ret.scanned /\ scan_interval > 0 /\ now >= scan_interval
    /\ last_scan_time = Some(now)

\* C7: update returns NoTargetsFound exactly when the quantity check did not
\* fire and current_known_locations is empty after the call's scan and
\* filtering; when it is not empty update returns GoalUpdated.
C7_NoTargetsIffEmpty ==
    Updated =>
        /\ ret.result.tag = "NoTargetsFound"
              <=> (ret.result.tag # "QuantityReached" /\ current_known_locations = <<>>)
        /\ (ret.result.tag # "QuantityReached" /\ current_known_locations # <<>>)
              => ret.result.tag = "GoalUpdated"

\* C7 witness: update has returned NoTargetsFound after a scan.
C7_Witness ==
    Updated /\ ret.scanned /\ ret.result.tag = "NoTargetsFound" /\ is_active

\* C7, the goal builder's side under GoalSpec: update_mining_goal returns
\* None exactly for an empty list of known locations.
C7_GoalNoneIffEmpty ==
    "update_mining_goal" \in g_called => (g_goal = None <=> g_locations = <<>>)

\* ------------------------------------------------- claims on the goals
\* the positions of S joined to c by steps of at most r2 half blocks
RECURSIVE Grow(_, _, _)
Grow(S, c, r2) ==
    LET more == { q \in S \ c : \E p \in c : within_distance(p, q, r2) }
    IN IF more = {} THEN c ELSE Grow(S, c \cup more, r2)

\* the connected components of 'Euclidean distance <= r2 / 2' on S
Components(S, r2) == { Grow(S, { p }, r2) : p \in S }

VeinSets(veins) == { Range(veins[i]) : i \in 1..Len(veins) }

\* the mining goals a goal is made of
GoalsOf(goal) ==
    IF goal.kind = "PriorizedMiningGoal" THEN { goal.goals[i][1] : i \in 1..Len(goal.goals) }
    ELSE { goal }

\* C8: detect_ore_veins returns the connected components, of 2 or more
\* positions, of 'distance <= the configured vein_max_distance': each vein
\* one whole component, the veins pairwise disjoint, whatever position
\* each flood fill starts from.
C8_VeinsAreConfiguredComponents ==
    "detect_ore_veins" \in g_called =>
        /\ VeinSets(g_veins)
              = { c \in Components(Range(g_locations), config.vein_max_distance2) : Cardinality(c) >= 2 }
        /\ \A i \in 1..Len(g_veins) : Cardinality(Range(g_veins[i])) = Len(g_veins[i])
        /\ \A i, j \in 1..Len(g_veins) : i # j => Range(g_veins[i]) \cap Range(g_veins[j]) = {}

\* C9: every considered known location is a target of the goal returned by
\* update_mining_goal: each cluster of 2 or more is an OreVein goal and
\* each isolated position a SingleBlock goal.
C9_EveryLocationIsTarget ==
    ("update_mining_goal" \in g_called /\ g_locations # <<>>) =>
        /\ IsSome(g_goal)
        /\ GoalTargets(Unwrap(g_goal)) = Range(g_locations)
        /\ \A c \in Components(Range(g_locations), VeinConnectionDistance2) :
              \E g \in GoalsOf(Unwrap(g_goal)) :
                 IF Cardinality(c) >= 2 THEN g.kind = "OreVein" /\ g.blocks = c
                 ELSE g.kind = "SingleBlock" /\ { g.target } = c

\* C10: every vein goal of the PriorizedMiningGoal has the weight
\* vein_size / (d + 1), d the distance (not squared) from the vein's centre
\* to the player.
C10_WeightUsesDistance ==
    ("update_mining_goal" \in g_called /\ IsSome(g_goal)) =>
        (Unwrap(g_goal).kind = "PriorizedMiningGoal" =>
            \A i \in 1..Len(Unwrap(g_goal).goals) :
                LET g == Unwrap(g_goal).goals[i][1]
                    w == Unwrap(g_goal).goals[i][2]
                    d2 == distance_squared_to(g.center, g_player)
                IN \E d \in 0..d2 : d * d = d2 /\ w.num * (d + 1) = Cardinality(g.blocks) * w.den)

\* ------------------------------------------- claims on MiningGoal's methods
\* the Euclidean distance between two positions is at most r2 half blocks
EuclideanWithin(a, b, r2) ==
    /\ \A i \in 1..3 : Abs(a[i] - b[i]) <= r2
    /\ 4 * ((a[1] - b[1]) * (a[1] - b[1]) + (a[2] - b[2]) * (a[2] - b[2])
            + (a[3] - b[3]) * (a[3] - b[3])) <= r2 * r2
SingleBlockSuccess == fn_call.op = "success" /\ fn_call.goal.kind = "SingleBlock"

\* C11: for all integer positions pos and target, SingleBlock.success(pos) is
\* true exactly when the Euclidean distance between pos and target is at
\* most 4.5 blocks.
C11_SuccessIffWithinReach ==
    SingleBlockSuccess =>
        \A i \in 1..Len(fn_rets) :
            fn_rets[i] = Ok(EuclideanWithin(fn_call.pos, fn_call.goal.target, StandardReach2))

\* C11, where no i32 operation overflows: success(pos) is true exactly when
\* the distance is at most 4.5 blocks (d^2 <= 20 and d^2 <= 20.25 agree on
\* integers).
C11_ExactWithoutOverflow ==
    (SingleBlockSuccess /\ \A i \in 1..3 : Abs(fn_call.pos[i] - fn_call.goal.target[i]) <= 26754)
    => \A i \in 1..Len(fn_rets) :
            fn_rets[i] = Ok(EuclideanWithin(fn_call.pos, fn_call.goal.target, StandardReach2))

StripMineCalled == fn_call.op = "get_target_positions" /\ fn_call.goal.kind = "StripMine"
\* the offsets of a band of n blocks centred on 0: -(n / 2) .. n - 1 - (n / 2)
Band(n) == { k - (n \div 2) : k \in 0..(n - 1) }
\* the blocks of a strip mine: length steps from start along the direction,
\* across the given offsets in width and in height
StripBlocks(goal, across, rise) ==
    LET dx == CASE goal.direction = "East" -> 1 [] goal.direction = "West" -> -1 [] OTHER -> 0
        dz == CASE goal.direction = "South" -> 1 [] goal.direction = "North" -> -1 [] OTHER -> 0
    IN { << goal.start[1] + dx * l + (IF dx = 0 THEN a ELSE 0),
            goal.start[2] + u,
            goal.start[3] + dz * l + (IF dz = 0 THEN a ELSE 0) >> :
         l \in 0..(goal.length - 1), a \in across, u \in rise }
\* the list has length x height x width pairwise distinct positions, they are
\* the given blocks, and every call returned the same list
StripMineReturns(blocks) ==
    \A i \in 1..Len(fn_rets) :
        LET positions == fn_rets[i].value
        IN /\ ~fn_rets[i].panicked
           /\ Len(positions) = fn_call.goal.length * fn_call.goal.height * fn_call.goal.width
           /\ \A j, k \in 1..Len(positions) : j # k => positions[j] # positions[k]
           /\ Range(positions) = blocks
           /\ fn_rets[i] = fn_rets[1]

\* C12 as stated: get_target_positions of a StripMine goal returns exactly
\* length x height x width pairwise distinct positions that extend length
\* blocks from start along direction, with a band centred on start in both
\* width and height; every call returns the same list.
C12_StripMineCentredBand ==
    StripMineCalled =>
        StripMineReturns(StripBlocks(fn_call.goal, Band(fn_call.goal.width),
                                     Band(fn_call.goal.height)))

\* C12 amended: as above, but the band is centred on start in width only; in
\* height it rises from start.y to start.y + height - 1.
C12_StripMineRisingBand ==
    StripMineCalled =>
        StripMineReturns(StripBlocks(fn_call.goal, Band(fn_call.goal.width),
                                     0..(fn_call.goal.height - 1)))

\* C12 witness: a strip mine of at least 2 x 2 x 2 blocks across the
\* direction of x has returned its positions twice.
C12_Witness ==
    /\ StripMineCalled /\ Len(fn_rets) >= 2
    /\ fn_call.goal.direction = "North"
    /\ fn_call.goal.length >= 2 /\ fn_call.goal.height >= 2 /\ fn_call.goal.width >= 2

\* ------------------------------------------------- claims on WorldScanner
ScanCalled == fn_call.op = "scan_for_blocks"
Chebyshev(a, b) ==
    IF Abs(a[1] - b[1]) >= Abs(a[2] - b[2]) THEN Abs(a[1] - b[1]) ELSE Abs(a[2] - b[2])
StartChunk == ChunkOf(fn_call.request.center_pos)
\* ceil(max_radius / 16)
ChunkRadius == (fn_call.request.max_radius + ChunkWidth - 1) \div ChunkWidth
\* spiral_chunk_positions returns, for each radius up to the scan's, exactly
\* the chunks at that Chebyshev distance, each once
RingsAreExact ==
    \A r \in 0..ChunkRadius :
        LET ring == spiral_chunk_positions(StartChunk, r)
        IN /\ Range(ring) = { c \in ChunkSquare(StartChunk, r) : Chebyshev(c, StartChunk) = r }
           /\ \A i, j \in 1..Len(ring) : i # j => ring[i] # ring[j]
\* no chunk is visited twice or outside the square, and nearer rings come first
VisitsInRingOrder(chunks) ==
    /\ Range(chunks) \subseteq ChunkSquare(StartChunk, ChunkRadius)
    /\ \A i, j \in 1..Len(chunks) :
          i < j => /\ chunks[i] # chunks[j]
                   /\ Chebyshev(chunks[i], StartChunk) <= Chebyshev(chunks[j], StartChunk)

ScannedMatches(scan) ==
    { b \in DOMAIN fn_call.instance.blocks :
        /\ fn_call.instance.blocks[b] \in fn_call.request.block_states
        /\ ChunkOf(b) \in fn_call.instance.loaded \cap ChunkSquare(StartChunk, ChunkRadius)
        /\ (b[2] - fn_call.instance.min_y) \div 16 \in Range(scan.y_sections) }

\* C14: the positions returned by scan_for_blocks are in non-decreasing
\* Manhattan distance from center_pos, number at most max_results, and no
\* matching position of the scanned area that is left out is strictly closer
\* to the player than a returned one.
C14_NearestAreReturned ==
    ScanCalled =>
        \A i \in 1..Len(fn_rets) :
            LET positions == fn_rets[i].positions
                center == fn_call.request.center_pos
            IN /\ Len(positions) <= fn_call.request.max_results
               /\ \A j, k \in 1..Len(positions) :
                     j < k => manhattan(positions[j], center) <= manhattan(positions[k], center)
               /\ \A left \in ScannedMatches(fn_rets[i]) \ Range(positions) :
                     \A k \in 1..Len(positions) :
                         manhattan(left, center) >= manhattan(positions[k], center)

\* the sections (numbered as player_y / 16 numbers them) that overlap the band
OverlapsBand(section_y, band) == section_y * 16 <= band[2] /\ section_y * 16 + 15 >= band[1]

\* C15: with prefer_y_levels = (y_min, y_max) the sections that overlap the
\* band are scanned before any other section, in non-decreasing distance
\* from the player's Y.
C15_BandSectionsFirst ==
    fn_call.op = "get_prioritized_y_sections" =>
        \A i \in 1..Len(fn_rets) :
            LET ys == fn_rets[i]
                band == fn_call.prefer_y_levels
                player_section == TruncDiv(fn_call.player_y, 16)
            IN /\ \A y \in MinSectionY..MaxSectionY : OverlapsBand(y, band) => y \in Range(ys)
               /\ \A j, k \in 1..Len(ys) :
                     (OverlapsBand(ys[k], band) /\ ~OverlapsBand(ys[j], band)) => k < j
               /\ \A j, k \in 1..Len(ys) :
                     (j < k /\ OverlapsBand(ys[j], band) /\ OverlapsBand(ys[k], band))
                     => Abs(ys[j] - player_section) <= Abs(ys[k] - player_section)

SectionCalled == fn_call.op = "scan_chunk_section"
\* the positions of a section's blocks of a target state, walked block by
\* block in the order y, z, x
RECURSIVE FirstOf(_, _)
FirstOf(S, k) ==
    IF k <= 0 \/ S = {} THEN <<>>
    ELSE LET least == CHOOSE a \in S : \A b \in S : a <= b
         IN << least >> \o FirstOf(S \ { least }, k - 1)
FullWalk(call) ==
    LET hits == FirstOf({ n \in 0..(SectionBlocks - 1) :
                            section_get(call.section, n) \in call.request.block_states },
                        call.request.max_results - Len(call.results))
    IN call.results \o
       [k \in 1..Len(hits) |->
           << call.chunk_pos[1] * 16 + (hits[k] % 16),
              call.world_min_y + call.section_y * 16 + (hits[k] \div 256),
              call.chunk_pos[2] * 16 + ((hits[k] \div 16) % 16) >>]

\* C16: the palette prefilter never changes the scan result: for every
\* palette kind the positions scan_chunk_section finds are those of a full
\* block-by-block walk of the section.
C16_PrefilterKeepsResult ==
    SectionCalled => \A i \in 1..Len(fn_rets) : fn_rets[i] = FullWalk(fn_call)

\* C16 witness: a section with a linear palette that holds no target state
\* has been skipped.
C16_Witness ==
    /\ SectionCalled /\ Len(fn_rets) >= 1
    /\ fn_call.section.kind = "Linear"
    /\ fn_call.section.overrides # EmptyMap
    /\ ~palette_contains_target(fn_call.section, fn_call.request.block_states)

\* ------------------------------------------------------- claims on costs
\* an f32 cost is at least n
CostAtLeast(cost, n) == cost.inf \/ cost.num >= n * cost.den

\* C17: for every block state b and any sequence of cost_for calls on one
\* MiningCache, cost_for(b) is either +infinity or at least
\* BLOCK_BREAK_ADDITIONAL_PENALTY (2), and repeated calls for the same b
\* return the same value.
C17_CostInfiniteOrAtLeastPenalty ==
    fn_call.op = "cost_for" =>
        /\ \A i \in 1..Len(fn_rets) : CostAtLeast(fn_rets[i].cost, BLOCK_BREAK_ADDITIONAL_PENALTY)
        /\ \A i, j \in 1..Len(fn_rets) :
              fn_rets[i].block = fn_rets[j].block => fn_rets[i].cost = fn_rets[j].cost
        /\ \A b \in DOMAIN block_state_id_costs :
              CostAtLeast(block_state_id_costs[b], BLOCK_BREAK_ADDITIONAL_PENALTY)

\* C17 witness: with an inventory, a block that breaks at once has been asked
\* for twice (the second answer comes from the cache) and its cost is finite.
C17_Witness ==
    /\ fn_call.op = "cost_for" /\ IsSome(inventory_menu) /\ Len(fn_rets) >= 2
    /\ fn_rets[1].block = "ShortGrass" /\ fn_rets[2].block = "ShortGrass"
    /\ ~fn_rets[2].cost.inf

\* C18: for every N in 1..=4096 the table entry FALL_N_BLOCKS_COST[N] equals
\* distance_to_ticks(N).
C18_TableEqualsDistanceToTicks ==
    fn_call.op = "fall" =>
        \A i, j \in 1..Len(fn_rets) : fn_rets[i].value = fn_rets[j].value

\* ------------------------------------------------- claims on water moves
WaterCalled == fn_call.op \in WaterOps
\* a block that holds water, whatever its level; water that is not flowing
HoldsWater(block_state) ==
    \/ block_state.block \in { "Water", "Seagrass", "TallSeagrass", "Kelp", "KelpPlant" }
    \/ block_state.waterlogged
StillOrWaterlogged(block_state) ==
    /\ HoldsWater(block_state)
    /\ block_state.block = "Water" => block_state.water_level = Some(0)
FaceNeighbours(pos) ==
    { pos_add(pos, d) : d \in { << 1, 0, 0 >>, << -1, 0, 0 >>, << 0, 1, 0 >>, << 0, -1, 0 >>,
                                << 0, 0, 1 >>, << 0, 0, -1 >> } }
SwimMoves == { "execute_water_traverse", "execute_water_ascend", "execute_water_descend" }
\* the edges returned by the calls made so far
EmittedEdges == UNION { Range(fn_rets[i]) : i \in 1..Len(fn_rets) }

\* C19: every edge of water_moves whose target is a water block targets still
\* or waterlogged water, never flowing water, with no lava in any of the six
\* face-neighbours of the target; entry edges leave non-water nodes only and
\* swim edges (traverse, ascend, descend) leave water nodes only.
C19_WaterTargetsNavigableAndSafe ==
    WaterCalled =>
        \A e \in EmittedEdges :
            /\ HoldsWater(get_block_state(fn_call.world, e.target)) =>
                  /\ StillOrWaterlogged(get_block_state(fn_call.world, e.target))
                  /\ \A n \in FaceNeighbours(e.target) :
                        get_block_state(fn_call.world, n).block # "Lava"
            /\ e.execute = "execute_water_entry" =>
                  ~HoldsWater(get_block_state(fn_call.world, fn_call.node))
            /\ e.execute \in SwimMoves =>
                  HoldsWater(get_block_state(fn_call.world, fn_call.node))

\* C19 witness: water_moves has run on a water node in a world that holds
\* lava; it has emitted an edge onto water and fewer than four traverse edges.
C19_Witness ==
    /\ fn_call.op = "water_moves" /\ Len(fn_rets) >= 1
    /\ HoldsWater(get_block_state(fn_call.world, fn_call.node))
    /\ \E pos \in DOMAIN fn_call.world.blocks : fn_call.world.blocks[pos] = Lava
    /\ \E e \in EmittedEdges : HoldsWater(get_block_state(fn_call.world, e.target))
    /\ Cardinality({ k \in 1..Len(fn_rets[1]) :
                       fn_rets[1][k].execute = "execute_water_traverse" }) < 4

\* C20: every edge that water_traverse_move emits from a water node onto a
\* target that is not water costs exactly WATER_EXIT_COST (1.5), whatever
\* blocks surround the target.
C20_ExitCostIsFlat ==
    fn_call.op = "water_traverse_move" =>
        \A e \in EmittedEdges :
            ~HoldsWater(get_block_state(fn_call.world, e.target)) => e.cost = WATER_EXIT_COST

\* ------------------------------------------------- claims on water paths
PathFollowed == fn_call.op = "path"
\* a move between two nodes that both have water above them
FullySubmerged(step) ==
    /\ HoldsWater(get_block_state(fn_call.world, up(step.from, 1)))
    /\ HoldsWater(get_block_state(fn_call.world, up(step.edge.target, 1)))
\* the cost is base, with or without the bonus for air above the target
PricedAt(cost, base) == cost \in { base, f32_mul(base, F32(9, 10)) }
\* the steps 1..i-1 of the path end with three fully submerged moves
ThreeSubmergedBefore(i) ==
    /\ i > 3
    /\ \A j \in (i - 3)..(i - 1) : FullySubmerged(fn_rets[j])

\* C21: along a path of water edges a traverse edge is priced at the sprint
\* swim cost (1.5 x WALK_ONE_BLOCK_COST) only if at least 3 consecutive fully
\* submerged moves immediately precede it on the path; a fully submerged
\* horizontal move without that history costs the swim cost (1.8 x
\* WALK_ONE_BLOCK_COST).
C21_SprintOnlyAfterThreeSubmerged ==
    PathFollowed =>
        \A i \in 1..Len(fn_rets) :
            fn_rets[i].edge.execute = "execute_water_traverse" =>
                /\ PricedAt(fn_rets[i].edge.cost, SPRINT_SWIMMING_COST) => ThreeSubmergedBefore(i)
                /\ FullySubmerged(fn_rets[i]) /\ ~ThreeSubmergedBefore(i) =>
                      PricedAt(fn_rets[i].edge.cost, SWIMMING_COST)

\* the swimming state with which the generator priced a step of the path
PricingState(step) ==
    CASE step.edge.execute = "execute_water_traverse" ->
            water_traverse_swimming_state(fn_call.world, step.from)
      [] step.edge.execute = "execute_water_ascend" ->
            water_ascend_swimming_state(fn_call.world, step.from)
      [] step.edge.execute = "execute_water_descend" ->
            water_descend_swimming_state(fn_call.world, step.from)
      [] OTHER -> SwimmingState_default
\* the step ends at a node with air directly above it
Surfaces(step) == is_air(get_block_state(fn_call.world, up(step.edge.target, 1)))

\* C22: along a path of water edges the estimated air of the swimming state
\* decreases with every fully submerged edge and is back at the maximum (300)
\* after surfacing: an edge that follows a fully submerged edge is priced
\* with less air than the edge before it, an edge that follows a surfacing
\* edge with 300.
C22_AirFallsWhileSubmerged ==
    PathFollowed =>
        \A i \in 2..Len(fn_rets) :
            /\ FullySubmerged(fn_rets[i - 1]) =>
                  PricingState(fn_rets[i]).estimated_air < PricingState(fn_rets[i - 1]).estimated_air
            /\ Surfaces(fn_rets[i - 1]) => PricingState(fn_rets[i]).estimated_air = MaxAir

\* ------------------------------------------- claims on the air bonus
\* air straight up from pos within n blocks, through blocks that are
\* passable or hold water
OpenBlock(block_state) == HoldsWater(block_state) \/ block_state.block \in { "Air", "ShortGrass" }
AirColumn(world, pos, n) ==
    \E k \in 1..n :
        /\ get_block_state(world, up(pos, k)).block = "Air"
        /\ \A j \in 1..(k - 1) : OpenBlock(get_block_state(world, up(pos, j)))
\* the costs of an ascent edge and of a traverse edge before any bonus
AscentBases == { f32_mul(SWIMMING_COST, F32(13, 10)), f32_mul(SPRINT_SWIMMING_COST, F32(13, 10)),
                 f32_mul(SWIMMING_COST, F32(8, 10)) }
TraverseBases == { SWIMMING_COST, SPRINT_SWIMMING_COST, WATER_EXIT_COST }
Discounted(cost, bases, factor) == \E base \in bases : cost = f32_mul(base, factor)
AscentBonus(edge) == Discounted(edge.cost, AscentBases, F32(7, 10))
TraverseBonus(edge) == Discounted(edge.cost, TraverseBases, F32(9, 10))

\* C23 as stated: an ascent edge's cost is multiplied by 0.7 exactly when its
\* target has air straight up within 3 blocks through passable or water
\* blocks, a traverse edge's cost by 0.9 under the same condition; without
\* such an air column neither bonus is applied.
C23_BonusIffAirWithinThree ==
    WaterCalled =>
        \A e \in EmittedEdges :
            /\ e.execute = "execute_water_ascend" =>
                  /\ AscentBonus(e) <=> AirColumn(fn_call.world, e.target, 3)
                  /\ ~AscentBonus(e) <=> e.cost \in AscentBases
            /\ e.execute = "execute_water_traverse" =>
                  /\ TraverseBonus(e) <=> AirColumn(fn_call.world, e.target, 3)
                  /\ ~TraverseBonus(e) <=> e.cost \in TraverseBases

\* C23 amended: a traverse edge's cost is multiplied by 0.9 exactly when its
\* target has air straight up within 3 blocks through passable or water
\* blocks; an ascent edge's cost is multiplied by 0.7 exactly when its target
\* is air or has such air within 2 blocks.
C23_BonusIffAirWithinReach ==
    WaterCalled =>
        \A e \in EmittedEdges :
            /\ e.execute = "execute_water_ascend" =>
                  /\ AscentBonus(e) <=>
                        \/ get_block_state(fn_call.world, e.target).block = "Air"
                        \/ AirColumn(fn_call.world, e.target, 2)
                  /\ ~AscentBonus(e) <=> e.cost \in AscentBases
            /\ e.execute = "execute_water_traverse" =>
                  /\ TraverseBonus(e) <=> AirColumn(fn_call.world, e.target, 3)
                  /\ ~TraverseBonus(e) <=> e.cost \in TraverseBases

\* C23 witness: water_moves has emitted an ascent edge without bonus onto
\* water whose nearest air is 3 blocks up, and a traverse edge without bonus
\* below it.
C23_Witness ==
    /\ fn_call.op = "water_moves" /\ Len(fn_rets) >= 1
    /\ \E e \in EmittedEdges :
          /\ e.execute = "execute_water_ascend" /\ ~AscentBonus(e)
          /\ AirColumn(fn_call.world, e.target, 3) /\ ~AirColumn(fn_call.world, e.target, 2)
    /\ \E e \in EmittedEdges : e.execute = "execute_water_traverse" /\ ~TraverseBonus(e)

\* C24: every edge pushed by water_moves (traverse, exit, ascend, descend,
\* entry), for every node and every world, has a cost that is strictly
\* positive and finite.
C24_CostsPositiveAndFinite ==
    WaterCalled =>
        \A e \in EmittedEdges : ~e.cost.inf /\ e.cost.den > 0 /\ e.cost.num > 0

\* C24 witness: water_moves has pushed a traverse edge onto water, an exit, an
\* ascent and a descent from one node.
C24_Witness ==
    /\ fn_call.op = "water_moves" /\ Len(fn_rets) >= 1
    /\ \E e \in EmittedEdges :
          e.execute = "execute_water_traverse" /\ HoldsWater(get_block_state(fn_call.world, e.target))
    /\ \E e \in EmittedEdges :
          e.execute = "execute_water_traverse" /\ ~HoldsWater(get_block_state(fn_call.world, e.target))
    /\ \E e \in EmittedEdges : e.execute = "execute_water_ascend"
    /\ \E e \in EmittedEdges : e.execute = "execute_water_descend"

\* a block the avatar can stand on
Standable(block_state) == block_state.block \in { "Stone", "OakStairs" }

\* C29: every edge emitted by water_traverse_move or water_ascend_move targets
\* a position that is a water block or has a standable block directly beneath
\* it.
C29_ExitHasFooting ==
    fn_call.op \in { "water_traverse_move", "water_ascend_move" } =>
        \A e \in EmittedEdges :
            \/ HoldsWater(get_block_state(fn_call.world, e.target))
            \/ Standable(get_block_state(fn_call.world, down(e.target, 1)))

\* --------------------------------------- claims on the goals of update
\* every position within 5 blocks of the drawn locations, along each axis
NearGoalPositions ==
    { << x, y, z >> : x \in -8..12, y \in -5..7, z \in -5..7 }

C27_BlacklistAgreesWithAvoidList ==
    \A pos \in DOMAIN blacklist_log :
        is_blacklisted(blacklisted_positions, pos, now) <=> should_avoid_block(avoid_blocks, pos, now)

\* ------------------------------------------- claims on the ore cache
\* call i of the log marks pos inaccessible and no later call before call k
\* caches pos again or marks it accessible
MarkedInaccessibleSince(pos, i, k) ==
    /\ fn_rets[i].op = "mark_ore_accessibility"
    /\ fn_rets[i].pos = pos /\ ~fn_rets[i].accessible
    /\ \A j \in (i + 1)..(k - 1) :
          /\ fn_rets[j].op = "cache_ore_locations" => pos \notin Range(fn_rets[j].locations)
          /\ fn_rets[j].op = "mark_ore_accessibility" => fn_rets[j].pos # pos

\* C28: after mark_ore_accessibility(pos, false), get_cached_ore_locations
\* does not return pos for any block state, whatever cache_ore_locations
\* calls came before (pos cached under two block states included), until pos
\* is cached again.
C28_InaccessibleIsNotReturned ==
    fn_call.op = "ore_cache" =>
        \A k \in 1..Len(fn_rets) :
            fn_rets[k].op = "get_cached_ore_locations" =>
                \A pos \in CachePositions :
                    (\E i \in 1..(k - 1) : MarkedInaccessibleSince(pos, i, k))
                        => pos \notin Range(fn_rets[k].positions)

\* ------------------------------------------- claims on the whole scan
\* the blocks of a target state in the loaded chunks within the chunk radius
MatchesInRadius ==
    { b \in DOMAIN fn_call.instance.blocks :
        /\ fn_call.instance.blocks[b] \in fn_call.request.block_states
        /\ ChunkOf(b) \in fn_call.instance.loaded \cap ChunkSquare(StartChunk, ChunkRadius) }

\* C30: without a Y preference and with max_results not reached,
\* scan_for_blocks reports every block of a target state in every section of
\* every loaded chunk within the chunk radius, at its true world position,
\* for a world with min_y = -64 and height = 384.
C30_ScanReportsEveryMatch ==
    (ScanCalled /\ ~IsSome(fn_call.request.y_level_threshold)) =>
        \A i \in 1..Len(fn_rets) :
            Len(fn_rets[i].positions) < fn_call.request.max_results =>
                Range(fn_rets[i].positions) = MatchesInRadius

====
